---- MODULE Spec2Model ----
(***************************************************************************)
(* A model of the web3:// client of web3url-gateway: FetchUrl = ParseUrl   *)
(* (with name resolution through the name-address cache and the            *)
(* resolve-mode probe), FetchContractReturn and ProcessContractReturn.     *)
(*                                                                         *)
(* Strings are TLA+ strings (Len, SubSeq and \o work on them in TLC), a    *)
(* []byte is a sequence of numbers 0..255, a common.Address is a sequence  *)
(* of 20 bytes.  keccak-256 (NameHash, method selectors) is left           *)
(* uninterpreted: a hash is the tagged tuple of what was hashed.           *)
(***************************************************************************)
EXTENDS Integers, Sequences, FiniteSets, TLC

(***************************************************************************)
(* Strings and bytes                                                       *)
(***************************************************************************)

\* s[i] of a Go string, as a one-character string
Char(s, i) == SubSeq(s, i, i)

\* the printable ASCII characters, from code 32 to code 126 (code 96, the
\* backquote, cannot be written in a TLA+ string: "?" holds its place)
AsciiPrintable == " !\"#$%&'()*+,-./0123456789:;<=>?@ABCDEFGHIJKLMNOPQRSTUVWXYZ[\\]^_?abcdefghijklmnopqrstuvwxyz{|}~"

\* string(byte) for a printable byte, "?" standing for every other byte
Chr(b) == IF b >= 32 /\ b <= 126 THEN Char(AsciiPrintable, b - 31) ELSE "?"

\* byte(c) of a one-character string
Ord(c) ==
    31 + (CHOOSE i \in 1..Len(AsciiPrintable) :
            Char(AsciiPrintable, i) = c /\ \A j \in 1..(i - 1) : Char(AsciiPrintable, j) # c)

\* []byte(s)
StrBytes(s) == [i \in 1..Len(s) |-> Ord(Char(s, i))]

RECURSIVE BytesStr(_)
\* string(bs)
BytesStr(bs) ==
    IF Len(bs) = 0 THEN ""
    ELSE IF Len(bs) = 1 THEN Chr(bs[1])
    ELSE BytesStr(SubSeq(bs, 1, Len(bs) \div 2)) \o BytesStr(SubSeq(bs, (Len(bs) \div 2) + 1, Len(bs)))

RECURSIVE Repeat(_, _)
\* strings.Repeat(s, n)
Repeat(s, n) ==
    IF n <= 0 THEN "" ELSE IF n = 1 THEN s ELSE Repeat(s, n \div 2) \o Repeat(s, n - (n \div 2))

\* make([]byte, n)
Zeros(n) == [i \in 1..n |-> 0]

HexDigits == "0123456789abcdef"

RECURSIVE Bytes2Hex(_)
\* common.Bytes2Hex: two lowercase hex digits per byte, no prefix
Bytes2Hex(bs) ==
    IF Len(bs) = 0 THEN ""
    ELSE IF Len(bs) = 1 THEN Char(HexDigits, (bs[1] \div 16) + 1) \o Char(HexDigits, (bs[1] % 16) + 1)
    ELSE Bytes2Hex(SubSeq(bs, 1, Len(bs) \div 2)) \o Bytes2Hex(SubSeq(bs, (Len(bs) \div 2) + 1, Len(bs)))

\* the value of one hex digit, either case; -1 for any other character
HexVal(c) ==
    IF \E i \in 1..16 : Char(HexDigits, i) = c
    THEN (CHOOSE i \in 1..16 : Char(HexDigits, i) = c) - 1
    ELSE IF \E i \in 11..16 : Char("0123456789ABCDEF", i) = c
         THEN (CHOOSE i \in 11..16 : Char("0123456789ABCDEF", i) = c) - 1
         ELSE -1

\* common.isHex: an even number of characters, all of them hex digits
IsHex(s) == Len(s) % 2 = 0 /\ \A i \in 1..Len(s) : HexVal(Char(s, i)) >= 0

\* common.has0xPrefix
Has0xPrefix(s) == Len(s) >= 2 /\ Char(s, 1) = "0" /\ Char(s, 2) \in {"x", "X"}

\* the string without its 0x prefix, if it has one
Strip0x(s) == IF Has0xPrefix(s) THEN SubSeq(s, 3, Len(s)) ELSE s

\* common.IsHexAddress
IsHexAddress(s) == Len(Strip0x(s)) = 40 /\ IsHex(Strip0x(s))

\* common.Hex2Bytes of an even-length hex string
Hex2Bytes(s) == [i \in 1..(Len(s) \div 2) |-> 16 * HexVal(Char(s, 2 * i - 1)) + HexVal(Char(s, 2 * i))]

\* common.BytesToAddress: the last 20 bytes, left-padded with zeros
BytesToAddress(bs) ==
    IF Len(bs) >= 20 THEN SubSeq(bs, Len(bs) - 19, Len(bs)) ELSE Zeros(20 - Len(bs)) \o bs

\* common.HexToAddress of a string IsHexAddress accepts
HexToAddress(s) == BytesToAddress(Hex2Bytes(Strip0x(s)))

\* the zero value common.Address{}
ZeroAddress == Zeros(20)

\* strings.ToLower on ASCII
ToLowerChar(c) ==
    IF \E i \in 1..26 : Char("ABCDEFGHIJKLMNOPQRSTUVWXYZ", i) = c
    THEN Char("abcdefghijklmnopqrstuvwxyz", CHOOSE i \in 1..26 : Char("ABCDEFGHIJKLMNOPQRSTUVWXYZ", i) = c)
    ELSE c

RECURSIVE ToLower(_)
ToLower(s) ==
    IF Len(s) = 0 THEN ""
    ELSE IF Len(s) = 1 THEN ToLowerChar(s)
    ELSE ToLower(SubSeq(s, 1, Len(s) \div 2)) \o ToLower(SubSeq(s, (Len(s) \div 2) + 1, Len(s)))

RECURSIVE Split(_, _)
\* strings.Split(s, sep) for a one-character separator
Split(s, sep) ==
    IF \E i \in 1..Len(s) : Char(s, i) = sep
    THEN LET i == CHOOSE i \in 1..Len(s) : Char(s, i) = sep /\ \A j \in 1..(i - 1) : Char(s, j) # sep
         IN  <<SubSeq(s, 1, i - 1)>> \o Split(SubSeq(s, i + 1, Len(s)), sep)
    ELSE <<s>>

\* strings.Trim(s, "()")
TrimParens(s) ==
    LET keep == {i \in 1..Len(s) : Char(s, i) \notin {"(", ")"}}
    IN  IF keep = {} THEN ""
        ELSE SubSeq(s, CHOOSE i \in keep : \A j \in keep : i <= j, CHOOSE i \in keep : \A j \in keep : j <= i)

(***************************************************************************)
(* Errors                                                                  *)
(***************************************************************************)

\* a nil error
NoError == [kind |-> "nil", code |-> 0, msg |-> ""]

\* &Web3Error{HttpCode, err}
Web3Error(code, msg) == [kind |-> "Web3Error", code |-> code, msg |-> msg]

\* errors.New(msg), and the errors of the abi and json packages: not a Web3Error
PlainError(msg) == [kind |-> "error", code |-> 0, msg |-> msg]

\* net/http's status codes
StatusBadRequest == 400
StatusNotFound == 404
StatusInternalServerError == 500

(***************************************************************************)
(* The ABI codec (go-ethereum's accounts/abi), for the types the client    *)
(* decodes: address, string, bytes, uint256                                *)
(***************************************************************************)

\* the 32-byte big-endian word of a number below 65536
Word(n) == Zeros(30) \o <<n \div 256, n % 256>>

\* the number in the 32-byte word at byte offset off of bs, -1 when it is
\* 65536 or more (larger than any length in the model)
WordVal(bs, off) ==
    IF \E i \in 1..30 : bs[off + i] # 0 THEN -1 ELSE 256 * bs[off + 31] + bs[off + 32]

\* the ABI encoding of one address: the address left-padded to 32 bytes
AbiAddress(a) == Zeros(12) \o a

\* the ABI encoding of one string or bytes value: offset 0x20, length, data,
\* right-padded to a multiple of 32 bytes
AbiDynamic(data) ==
    Word(32) \o Word(Len(data)) \o data \o Zeros((32 - (Len(data) % 32)) % 32)

\* abi.Arguments.UnpackValues for one value of type tp: [err, val]
UnpackValue(data, tp) ==
    IF Len(data) = 0
    THEN [err |-> PlainError("abi: attempting to unmarshall an empty string while arguments are expected"), val |-> <<>>]
    ELSE IF Len(data) < 32
    THEN [err |-> PlainError("abi: cannot marshal in to go type: length insufficient"), val |-> <<>>]
    ELSE IF tp = "address"
    THEN [err |-> NoError, val |-> BytesToAddress(SubSeq(data, 1, 32))]
    ELSE IF tp = "uint256"
    THEN [err |-> NoError, val |-> SubSeq(data, 1, 32)]
    ELSE IF tp \in {"string", "bytes"}
    THEN LET offset == WordVal(data, 0)
         IN  IF offset < 0 \/ offset + 32 > Len(data)
             THEN [err |-> PlainError("abi: cannot marshal in to go slice: offset would go over slice boundary"), val |-> <<>>]
             ELSE LET length == WordVal(data, offset)
                  IN  IF length < 0 \/ offset + 32 + length > Len(data)
                      THEN [err |-> PlainError("abi: cannot marshal in to go type: length insufficient"), val |-> <<>>]
                      ELSE [err |-> NoError,
                            val |-> IF tp = "string"
                                    THEN BytesStr(SubSeq(data, offset + 33, offset + 32 + length))
                                    ELSE SubSeq(data, offset + 33, offset + 32 + length)]
    ELSE [err |-> PlainError("unsupported arg type: " \o tp), val |-> <<>>]

(***************************************************************************)
(* Configuration: the Config the client was given.  Chain 1 has the three  *)
(* kinds of name service, chain 100 has none; the short name "oth" maps to *)
(* chain 5, which has no ChainConfigs entry.                               *)
(***************************************************************************)

\* the name-service kinds
DomainNameServiceENS == "ens"
Web3QNameService == "w3ns"
SimpleNameService == "simple"

\* the address 0x00..0k, for k below 256
Addr(k) == Zeros(19) \o <<k>>

\* the hex form "0x00..0k" of Addr(k)
AddrHex(k) == "0x" \o Bytes2Hex(Addr(k))

\* a function with no argument: an empty map
EmptyMap == [k \in {} |-> 0]

\* client.Config.ChainConfigs
ChainConfigs ==
    [c \in {1, 100} |->
        IF c = 1
        THEN [RPC |-> "rpc://chain1",
              NSConfig |-> [sfx \in {"eth", "w3q", "sim"} |->
                  CASE sfx = "eth" -> [NSType |-> DomainNameServiceENS, NSAddr |-> AddrHex(225)]
                    [] sfx = "w3q" -> [NSType |-> Web3QNameService, NSAddr |-> AddrHex(226)]
                    [] sfx = "sim" -> [NSType |-> SimpleNameService, NSAddr |-> AddrHex(227)]]]
        ELSE [RPC |-> "rpc://chain100", NSConfig |-> EmptyMap]]

\* client.Config.Name2Chain
Name2Chain == [n \in {"gno", "oth"} |-> IF n = "gno" THEN 100 ELSE 5]

(***************************************************************************)
(* The URL grammar: the anchored regular expression of ParseUrl.  In       *)
(* order: a protocol of one or more characters other than ":", the text    *)
(* "://", a hostname of one or more characters other than ":", "/", "?",   *)
(* optionally ":" and a chainId (a digit 1-9, then digits), optionally a   *)
(* pathname ("/" and characters other than "?"), optionally "?" and the    *)
(* searchParams.  Every repetition is followed by a character it excludes  *)
(* (or by the end), so the match, when there is one, is the greedy one     *)
(* computed here.                                                          *)
(***************************************************************************)

\* s[i-1:j] cut to the string: the characters at positions i..j that exist
Slice(s, i, j) ==
    LET lo == IF i < 1 THEN 1 ELSE i
        hi == IF j > Len(s) THEN Len(s) ELSE j
    IN  IF lo > hi THEN "" ELSE SubSeq(s, lo, hi)

\* the first position from i on whose character is in set, Len(s) + 1 if none
FirstIn(s, i, set) ==
    IF \E j \in i..Len(s) : Char(s, j) \in set
    THEN CHOOSE j \in i..Len(s) : Char(s, j) \in set /\ \A k \in i..(j - 1) : Char(s, k) \notin set
    ELSE Len(s) + 1

\* the first position from i on whose character is not in set, Len(s) + 1 if none
FirstNotIn(s, i, set) ==
    IF \E j \in i..Len(s) : Char(s, j) \notin set
    THEN CHOOSE j \in i..Len(s) : Char(s, j) \notin set /\ \A k \in i..(j - 1) : Char(s, k) \in set
    ELSE Len(s) + 1

Digits == {"0", "1", "2", "3", "4", "5", "6", "7", "8", "9"}

NoMatch == [matched |-> FALSE, protocol |-> "", hostname |-> "", chainId |-> "", pathname |-> "", searchParams |-> ""]

\* the named groups (urlMainParts) of a match: the chain id, if any, ends
\* before pathStart, and the first "?" from there on is at query
UrlGroups(url, colon, hostEnd, chainId, pathStart, query) ==
    [matched |-> TRUE,
     protocol |-> Slice(url, 1, colon - 1),
     hostname |-> Slice(url, colon + 3, hostEnd - 1),
     chainId |-> chainId,
     pathname |-> Slice(url, pathStart, query - 1),
     searchParams |-> Slice(url, query + 1, Len(url))]

\* the path: nothing, or "/" or "?" and what follows
UrlPath(url, colon, hostEnd, chainId, pathStart) ==
    IF pathStart <= Len(url) /\ Char(url, pathStart) \notin {"/", "?"} THEN NoMatch
    ELSE UrlGroups(url, colon, hostEnd, chainId, pathStart, FirstIn(url, pathStart, {"?"}))

\* the chain id after the ":" at hostEnd: digits up to chainEnd, the first not 0
UrlChainId(url, colon, hostEnd, chainEnd) ==
    IF chainEnd = hostEnd + 1 \/ Char(url, hostEnd + 1) = "0" THEN NoMatch
    ELSE UrlPath(url, colon, hostEnd, Slice(url, hostEnd + 1, chainEnd - 1), chainEnd)

\* the hostname, from after "://" to before hostEnd
UrlHost(url, colon, hostEnd) ==
    IF hostEnd = colon + 3 THEN NoMatch
    ELSE IF hostEnd <= Len(url) /\ Char(url, hostEnd) = ":"
    THEN UrlChainId(url, colon, hostEnd, FirstNotIn(url, hostEnd + 1, Digits))
    ELSE UrlPath(url, colon, hostEnd, "", hostEnd)

\* the protocol, before the first ":" of the URL, and "://"
UrlProtocol(url, colon) ==
    IF colon < 2 \/ Slice(url, colon, colon + 2) # "://" THEN NoMatch
    ELSE UrlHost(url, colon, FirstIn(url, colon + 3, {":", "/", "?"}))

\* web3UrlRegexp.FindStringSubmatch(url), as the named groups (urlMainParts)
UrlMainParts(url) == UrlProtocol(url, FirstIn(url, 1, {":"}))

RECURSIVE DecimalValue(_)
DecimalValue(s) ==
    IF Len(s) = 0 THEN 0
    ELSE 10 * DecimalValue(SubSeq(s, 1, Len(s) - 1)) + HexVal(Char(s, Len(s)))

\* strconv.Atoi of a string of digits: [err, val].  A number of 20 digits or
\* more overflows int; the model's chain ids are far shorter.
Atoi(s) ==
    IF Len(s) >= 20 THEN [err |-> TRUE, val |-> 0] ELSE [err |-> FALSE, val |-> DecimalValue(s)]

RECURSIVE Itoa(_)
\* the decimal form of a number >= 0, as fmt's %v prints an int
Itoa(n) == IF n < 10 THEN Char(HexDigits, n + 1) ELSE Itoa(n \div 10) \o Char(HexDigits, (n % 10) + 1)

(***************************************************************************)
(* Name resolution: the pure parts                                         *)
(***************************************************************************)

\* the hex form of the ABI encoding of an empty string: offset 0x20, length 0
EmptyString == Repeat("0", 62) \o "20" \o Repeat("0", 64)

\* the hex form of 32 zero bytes
EmptyAddress == Repeat("0", 64)

\* toJSON(type, value), for the types the resolver decodes: an address as
\* 0x-prefixed lowercase hex, a string as it is, bytes as 0x-prefixed hex,
\* a uint256 as a decimal string
ToJSON(tp, v) ==
    CASE tp = "address" -> "0x" \o Bytes2Hex(v)
      [] tp = "string" -> v
      [] tp = "bytes" -> "0x" \o Bytes2Hex(v)
      [] tp = "uint256" -> IF WordVal(v, 0) < 0 THEN "0x" \o Bytes2Hex(v) ELSE Itoa(WordVal(v, 0))
      [] OTHER -> v

\* the ABI types abi.NewType knows, of those the model uses
AbiTypes == {"address", "string", "bytes", "uint256"}

\* parseOutput(output, userTypes) for a single return type: [err, res]
ParseOutput(output, userTypes) ==
    IF userTypes = "()" THEN [err |-> NoError, res |-> <<"0x" \o Bytes2Hex(output)>>]
    ELSE LET returnTypes == IF userTypes # "" THEN userTypes ELSE "(bytes)"
             returnArgs == Split(TrimParens(returnTypes), ",")
             arg == returnArgs[1]
             unpacked == UnpackValue(output, arg)
         IN  IF arg \notin AbiTypes
             THEN [err |-> Web3Error(StatusBadRequest, "unsupported arg type: " \o arg), res |-> <<>>]
             ELSE IF unpacked.err # NoError
             THEN [err |-> Web3Error(StatusBadRequest, unpacked.err.msg), res |-> <<>>]
             ELSE [err |-> NoError,
                   res |-> <<IF userTypes # "" THEN ToJSON(arg, unpacked.val) ELSE unpacked.val>>]

\* what a resolver returns: (common.Address, target chain, error); the
\* target chain 0 is "no chain override" (the empty chain of ens.go)
Resolved(addr, chain) == [addr |-> addr, chain |-> chain, err |-> NoError]
NotResolved(err) == [addr |-> ZeroAddress, chain |-> 0, err |-> err]

\* parseChainSpecificAddress without the strings.ToLower of line 236
parseChainSpecificAddressCaseSensitive(addr) ==
    IF IsHexAddress(addr) THEN Resolved(HexToAddress(addr), 0)
    ELSE LET ss == Split(addr, ":")
         IN  IF Len(ss) # 2
             THEN NotResolved(Web3Error(StatusBadRequest, "invalid contract address from name service: " \o addr))
             ELSE IF ss[1] \notin DOMAIN Name2Chain
             THEN NotResolved(Web3Error(StatusBadRequest, "unsupported chain short name from name service: " \o addr))
             ELSE IF ~IsHexAddress(ss[2])
             THEN NotResolved(Web3Error(StatusBadRequest, "invalid contract address from name service: " \o addr))
             ELSE Resolved(HexToAddress(ss[2]), Name2Chain[ss[1]])

\* client.parseChainSpecificAddress(addr): EIP-3770
parseChainSpecificAddress(addr) ==
    IF IsHexAddress(addr) THEN Resolved(HexToAddress(addr), 0)
    ELSE LET ss == Split(addr, ":")
         IN  IF Len(ss) # 2
             THEN NotResolved(Web3Error(StatusBadRequest, "invalid contract address from name service: " \o addr))
             ELSE IF ToLower(ss[1]) \notin DOMAIN Name2Chain
             THEN NotResolved(Web3Error(StatusBadRequest, "unsupported chain short name from name service: " \o addr))
             ELSE IF ~IsHexAddress(ss[2])
             THEN NotResolved(Web3Error(StatusBadRequest, "invalid contract address from name service: " \o addr))
             ELSE Resolved(HexToAddress(ss[2]), Name2Chain[ToLower(ss[1])])

\* client.getConfigs(nameServiceChain, nameWithSuffix): [err, nsInfo, rpc]
getConfigs(nameServiceChain, nameWithSuffix) ==
    LET ss == Split(nameWithSuffix, ".")
        suffix == ss[Len(ss)]
        none == [NSType |-> "", NSAddr |-> ""]
    IN  IF Len(ss) <= 1
        THEN [err |-> Web3Error(StatusBadRequest, "invalid domain name: " \o nameWithSuffix), nsInfo |-> none, rpc |-> ""]
        ELSE IF nameServiceChain \notin DOMAIN ChainConfigs
        THEN [err |-> Web3Error(StatusBadRequest, "unsupported chain: " \o Itoa(nameServiceChain)), nsInfo |-> none, rpc |-> ""]
        ELSE IF suffix \notin DOMAIN ChainConfigs[nameServiceChain].NSConfig
        THEN [err |-> Web3Error(StatusBadRequest, "unsupported suffix: " \o suffix), nsInfo |-> none, rpc |-> ""]
        ELSE [err |-> NoError,
              nsInfo |-> ChainConfigs[nameServiceChain].NSConfig[suffix],
              rpc |-> ChainConfigs[nameServiceChain].RPC]

\* NameHash(name) as a node: keccak-256 is uninterpreted
NameHash(name) == <<"namehash", name>>

\* the bytes32 argument of pointers(): the name without its last 4
\* characters, right-padded to 32 bytes (BytesToHash keeps the last 32
\* bytes of a longer name)
SimpleNode(nameWithSuffix) ==
    LET label == StrBytes(Slice(nameWithSuffix, 1, Len(nameWithSuffix) - 4))
        padded == IF Len(label) >= 32 THEN label ELSE label \o Zeros(32 - Len(label))
    IN  SubSeq(padded, Len(padded) - 31, Len(padded))

(***************************************************************************)
(* The name-address cache (localCache): key -> (address, target chain),    *)
(* each entry with the time it has left.  Time is counted in ticks, a      *)
(* fresh entry having TtlTicks ticks (NameAddrCacheDurationInMinutes) left.*)
(***************************************************************************)

\* how many ticks the cache duration is divided into
TtlTicks == 1

\* a get that does not look at the time an entry has left
CacheGetIgnoringExpiry(c, key) ==
    IF key \in DOMAIN c
    THEN [hit |-> TRUE, addr |-> c[key].addr, chain |-> c[key].chain]
    ELSE [hit |-> FALSE, addr |-> ZeroAddress, chain |-> 0]

\* nameAddrCache.get(key): (addr, targetChain, hit); an expired entry is a miss
CacheGet(c, key) ==
    IF key \in DOMAIN c /\ c[key].ttl > 0
    THEN [hit |-> TRUE, addr |-> c[key].addr, chain |-> c[key].chain]
    ELSE [hit |-> FALSE, addr |-> ZeroAddress, chain |-> 0]

\* nameAddrCache.add(key, addr, targetChain)
CacheAdd(c, key, addr, chain) ==
    [k \in DOMAIN c \cup {key} |->
        IF k = key THEN [addr |-> addr, chain |-> chain, ttl |-> TtlTicks] ELSE c[k]]

(***************************************************************************)
(* The Web3URL and FetchedWeb3URL records                                  *)
(***************************************************************************)

ContractCallModeCalldata == "calldata"
ContractCallModeMethod == "method"

ContractReturnProcessingABIEncodedBytes == "decodeABIEncodedBytes"
ContractReturnProcessingRawBytesJsonEncoded == "jsonEncodeRawBytes"
ContractReturnProcessingJsonEncodeValues == "jsonEncodeValues"
ContractReturnProcessingErc5219 == "erc5219"

ResolveModeAuto == "auto"
ResolveModeManual == "manual"
ResolveModeResourceRequests == "resourceRequests"

\* the zero Web3URL.  Calldata, MethodName, MethodArgs and MethodArgValues
\* are kept as PackOk: whether abi.Arguments.Pack accepts the method's
\* argument values
ZeroWeb3URL ==
    [Url |-> "",
     HostDomainNameResolver |-> "",
     HostDomainNameResolverChainId |-> 0,
     ContractAddress |-> ZeroAddress,
     ChainId |-> 0,
     ResolveMode |-> "",
     ContractCallMode |-> "",
     PackOk |-> TRUE,
     ContractReturnProcessing |-> "",
     DecodedABIEncodedBytesMimeType |-> "",
     JsonEncodedValueTypes |-> <<>>]

\* the zero FetchedWeb3URL; HttpHeaders is nil until ProcessContractReturn
\* makes the map
ZeroFetchedWeb3URL ==
    [Output |-> <<>>, HttpCode |-> 0, HttpHeaders |-> EmptyMap]

(***************************************************************************)
(* ParseUrl, up to the host: lines 146-231                                 *)
(***************************************************************************)

\* ParseUrl returns an error 400 before the cache is read
ParseUrlFails(w, msg) ==
    [err |-> Web3Error(StatusBadRequest, msg), web3Url |-> w, isName |-> FALSE, hostname |-> "", cacheKey |-> ""]

\* lines 222-236: the name service of the suffix, in the chain of w
ParseUrlNameService(w, hostname, nameServiceSuffix, nsConfig) ==
    IF nameServiceSuffix \notin DOMAIN nsConfig
    THEN ParseUrlFails(w, "Unsupported domain name service suffix: " \o nameServiceSuffix)
    ELSE [err |-> NoError,
          web3Url |-> [w EXCEPT !.HostDomainNameResolver = nsConfig[nameServiceSuffix].NSType],
          isName |-> TRUE,
          hostname |-> hostname,
          cacheKey |-> Itoa(w.HostDomainNameResolverChainId) \o ":" \o hostname]

\* lines 214-220: a host that is a name, split at its dots into ss
ParseUrlName(w, hostname, ss) ==
    IF Len(ss) <= 1 THEN ParseUrlFails(w, "Invalid contract address")
    ELSE ParseUrlNameService([w EXCEPT !.HostDomainNameResolverChainId = w.ChainId], hostname, ss[Len(ss)],
                             ChainConfigs[w.ChainId].NSConfig)

\* lines 204-213: the chain must be a configured one; the host is an
\* address or a name
ParseUrlHost(w, hostname) ==
    IF w.ChainId \notin DOMAIN ChainConfigs THEN ParseUrlFails(w, "Unsupported chain " \o Itoa(w.ChainId))
    ELSE IF IsHexAddress(hostname)
    THEN [err |-> NoError, web3Url |-> [w EXCEPT !.ContractAddress = HexToAddress(hostname)],
          isName |-> FALSE, hostname |-> hostname, cacheKey |-> ""]
    ELSE ParseUrlName(w, hostname, Split(hostname, "."))

\* lines 193-202: the chain id, 1 when the URL has none
ParseUrlChain(w, urlMainParts, chainId) ==
    IF Len(urlMainParts.chainId) > 0 /\ chainId.err
    THEN ParseUrlFails(w, "Unsupported chain " \o urlMainParts.chainId)
    ELSE ParseUrlHost([w EXCEPT !.ChainId = IF Len(urlMainParts.chainId) > 0 THEN chainId.val ELSE 1],
                      urlMainParts.hostname)

\* lines 153-167 without the check of the protocol of lines 165-167
ParseUrlMatchAnyProtocol(w, urlMainParts) ==
    IF ~urlMainParts.matched THEN ParseUrlFails(w, "Invalid URL format")
    ELSE ParseUrlChain(w, urlMainParts, Atoi(urlMainParts.chainId))

\* lines 153-167: the match and the protocol
ParseUrlMatch(w, urlMainParts) ==
    IF ~urlMainParts.matched THEN ParseUrlFails(w, "Invalid URL format")
    ELSE IF urlMainParts.protocol # "web3" THEN ParseUrlFails(w, "Protocol name is invalid")
    ELSE ParseUrlChain(w, urlMainParts, Atoi(urlMainParts.chainId))

\* the steps of ParseUrl before the cache is read (lines 146-236):
\* [err, web3Url, isName, hostname, cacheKey]
ParseUrlHead(url) == ParseUrlMatch([ZeroWeb3URL EXCEPT !.Url = url], UrlMainParts(url))

(***************************************************************************)
(* The chain: what an eth_call can answer.  An answer is an RPC error or   *)
(* the returned bytes.                                                     *)
(***************************************************************************)

RpcError == [ok |-> FALSE, bs |-> <<>>, msg |-> "execution reverted"]
RpcReturn(bs) == [ok |-> TRUE, bs |-> bs, msg |-> ""]

\* ethclient.Dial returned an error
DialFailed == [ok |-> FALSE, bs |-> <<>>, msg |-> "dial failed"]

\* answers of resolver(node) on the registry
ResolverResponses == {RpcError, RpcReturn(Zeros(32)), RpcReturn(AbiAddress(Addr(17)))}

\* answers of text(node, "contentcontract") on an ens resolver
TextResponses ==
    {RpcError,
     RpcReturn(<<>>),
     RpcReturn(AbiDynamic(<<>>)),
     RpcReturn(AbiDynamic(StrBytes("gno:" \o AddrHex(2)))),
     RpcReturn(AbiDynamic(StrBytes("oth:" \o AddrHex(2)))),
     RpcReturn(AbiDynamic(StrBytes(AddrHex(4)))),
     RpcReturn(AbiDynamic(StrBytes("bad"))),
     RpcReturn(AbiDynamic(StrBytes("unk:" \o AddrHex(2))))}

\* answers of webHandler(node) on a w3ns resolver
WebHandlerResponses ==
    {RpcError, RpcReturn(<<>>), RpcReturn(AbiDynamic(<<>>)), RpcReturn(Zeros(32)), RpcReturn(AbiAddress(Addr(4)))}

\* answers of addr(node) on a resolver and of pointers(name) on a registry
AddrResponses == {RpcError, RpcReturn(<<>>), RpcReturn(Zeros(32)), RpcReturn(AbiAddress(Addr(3)))}

\* "manual" and "5219", right-padded to 32 bytes
ManualBytes == StrBytes("manual") \o Zeros(26)
Erc5219Bytes == StrBytes("5219") \o Zeros(28)

\* answers of resolveMode() on the contract
ResolveModeResponses ==
    {RpcError, RpcReturn(<<>>), RpcReturn(Zeros(32)), RpcReturn(ManualBytes), RpcReturn(Erc5219Bytes),
     RpcReturn(ManualBytes \o Zeros(32))}

\* answers of the user's contract call
UserCallResponses ==
    {RpcError, RpcReturn(<<>>), RpcReturn(Word(42)), RpcReturn(AbiDynamic(StrBytes("hi")))}

\* the HTTP codes handleCallContract may give an RPC error
HandleCallErrorCodes == {StatusBadRequest, StatusInternalServerError}

\* handleCallContract(ethClient, msg), the call having answered resp:
\* (bs, nil), or a Web3Error with the given code for an RPC error
handleCallContract(resp, code) ==
    IF resp.ok THEN [bs |-> resp.bs, err |-> NoError]
    ELSE [bs |-> <<>>, err |-> Web3Error(code, resp.msg)]

(***************************************************************************)
(* resolve, getResolver, checkResolveMode: what each does with the answer  *)
(***************************************************************************)

\* a nil pointer dereference
Panic == [panic |-> TRUE, res |-> NotResolved(NoError)]
Returns(res) == [panic |-> FALSE, res |-> res]

\* client.resolve(ethClient, chain, resolver, args), the call having
\* answered resp.  With a nil err and 32 zero bytes, err.Error() is called
\* on the nil error.
resolve(resp) ==
    IF ~resp.ok \/ Bytes2Hex(resp.bs) = EmptyAddress
    THEN IF ~resp.ok THEN Returns(NotResolved(Web3Error(StatusNotFound, resp.msg))) ELSE Panic
    ELSE LET out == ParseOutput(resp.bs, "address")
         IN  IF out.err # NoError THEN Returns(NotResolved(out.err))
             ELSE Returns(parseChainSpecificAddress(out.res[1]))

\* getResolver(...), the call having answered resp: [err, resolver]
\* getResolver without the check of lines 202-204
getResolverNoZeroCheck(resp, code, nameWithSuffix) ==
    LET called == handleCallContract(resp, code)
    IN  IF called.err # NoError THEN [err |-> called.err, resolver |-> ZeroAddress]
        ELSE [err |-> NoError, resolver |-> BytesToAddress(called.bs)]

getResolver(resp, code, nameWithSuffix) ==
    LET called == handleCallContract(resp, code)
    IN  IF called.err # NoError THEN [err |-> called.err, resolver |-> ZeroAddress]
        ELSE IF Bytes2Hex(called.bs) = EmptyAddress
        THEN [err |-> Web3Error(StatusBadRequest, "Cannot get resolver for " \o nameWithSuffix),
              resolver |-> ZeroAddress]
        ELSE [err |-> NoError, resolver |-> BytesToAddress(called.bs)]

\* the webHandler or text step without the comparison with EmptyString of
\* line 161
webHandlerStepNoEmptyCheck(nsType, resp, code) ==
    LET returnTp == IF nsType = Web3QNameService THEN "(address)" ELSE "(string)"
        called == handleCallContract(resp, code)
        out == ParseOutput(called.bs, returnTp)
    IN  IF called.err # NoError THEN [fallback |-> FALSE, res |-> NotResolved(called.err)]
        ELSE IF out.err = NoError
        THEN [fallback |-> FALSE, res |-> parseChainSpecificAddress(out.res[1])]
        ELSE [fallback |-> TRUE, res |-> NotResolved(NoError)]

\* lines 157-167 with addr consulted when parseChainSpecificAddress fails
webHandlerStepFallsBackOnBadAddress(nsType, resp, code) ==
    LET returnTp == IF nsType = Web3QNameService THEN "(address)" ELSE "(string)"
        called == handleCallContract(resp, code)
        out == ParseOutput(called.bs, returnTp)
    IN  IF called.err # NoError THEN [fallback |-> FALSE, res |-> NotResolved(called.err)]
        ELSE IF Bytes2Hex(called.bs) # EmptyString /\ out.err = NoError
        THEN IF parseChainSpecificAddress(out.res[1]).err # NoError
             THEN [fallback |-> TRUE, res |-> NotResolved(NoError)]
             ELSE [fallback |-> FALSE, res |-> parseChainSpecificAddress(out.res[1])]
        ELSE [fallback |-> TRUE, res |-> NotResolved(NoError)]

\* the webHandler or text step of getAddressFromNameServiceWebHandler, the
\* call having answered resp: [fallback, res]; fallback is "go on to addr"
webHandlerStep(nsType, resp, code) ==
    LET returnTp == IF nsType = Web3QNameService THEN "(address)" ELSE "(string)"
        called == handleCallContract(resp, code)
        out == ParseOutput(called.bs, returnTp)
    IN  IF called.err # NoError THEN [fallback |-> FALSE, res |-> NotResolved(called.err)]
        ELSE IF Bytes2Hex(called.bs) # EmptyString /\ out.err = NoError
        THEN [fallback |-> FALSE, res |-> parseChainSpecificAddress(out.res[1])]
        ELSE [fallback |-> TRUE, res |-> NotResolved(NoError)]

\* checkResolveMode, after the dial, the resolveMode() call having answered resp
checkResolveMode(resp) ==
    IF ~resp.ok THEN ResolveModeAuto
    ELSE IF Len(resp.bs) = 32 /\ Bytes2Hex(resp.bs) = "6d616e75616c0000000000000000000000000000000000000000000000000000"
    THEN ResolveModeManual
    ELSE IF Len(resp.bs) = 32 /\ Bytes2Hex(resp.bs) = "3532313900000000000000000000000000000000000000000000000000000000"
    THEN ResolveModeResourceRequests
    ELSE ResolveModeAuto

(***************************************************************************)
(* parseManualModeUrl and parseAutoModeUrl: what they leave in the         *)
(* Web3URL (the call mode and the return processing with its fields), or   *)
(* an error                                                                *)
(***************************************************************************)

Plan(callMode, packOk, processing, mime, types) ==
    [ContractCallMode |-> callMode, PackOk |-> packOk, ContractReturnProcessing |-> processing,
     DecodedABIEncodedBytesMimeType |-> mime, JsonEncodedValueTypes |-> types]

ManualModePlans ==
    {Plan(ContractCallModeCalldata, TRUE, ContractReturnProcessingABIEncodedBytes, "", <<>>),
     Plan(ContractCallModeCalldata, TRUE, ContractReturnProcessingABIEncodedBytes, "text/html", <<>>)}

AutoModePlans ==
    {Plan(ContractCallModeCalldata, TRUE, ContractReturnProcessingABIEncodedBytes, "", <<>>),
     Plan(ContractCallModeMethod, TRUE, ContractReturnProcessingABIEncodedBytes, "", <<>>),
     Plan(ContractCallModeMethod, FALSE, ContractReturnProcessingABIEncodedBytes, "", <<>>),
     Plan(ContractCallModeMethod, TRUE, ContractReturnProcessingRawBytesJsonEncoded, "", <<>>),
     Plan(ContractCallModeMethod, TRUE, ContractReturnProcessingJsonEncodeValues, "", <<"uint256">>)}

\* the Web3URL with a plan's fields set
WithPlan(w, plan) ==
    [w EXCEPT !.ContractCallMode = plan.ContractCallMode,
              !.PackOk = plan.PackOk,
              !.ContractReturnProcessing = plan.ContractReturnProcessing,
              !.DecodedABIEncodedBytesMimeType = plan.DecodedABIEncodedBytesMimeType,
              !.JsonEncodedValueTypes = plan.JsonEncodedValueTypes]

\* the outcomes [err, web3Url] of the mode-specific parsing of ParseUrl
\* (lines 268-292): the resource-request branch is empty
ModeParseOutcomes(w) ==
    IF w.ResolveMode = ResolveModeManual
    THEN {[err |-> NoError, web3Url |-> WithPlan(w, plan)] : plan \in ManualModePlans}
         \cup {[err |-> Web3Error(StatusBadRequest, "invalid path"), web3Url |-> w]}
    ELSE IF w.ResolveMode = ResolveModeAuto
    THEN {[err |-> NoError, web3Url |-> WithPlan(w, plan)] : plan \in AutoModePlans}
         \cup {[err |-> Web3Error(StatusBadRequest, "invalid argument"), web3Url |-> w]}
    ELSE {[err |-> NoError, web3Url |-> w]}

(***************************************************************************)
(* ProcessContractReturn                                                   *)
(***************************************************************************)

\* a header that is not put in the map
HeaderNotSet(k, v) == EmptyMap

\* a map[string]string with the one entry k: v
OneHeader(k, v) == [h \in {k} |-> v]

\* json.Marshal of a slice of strings
JsonStrings(vals) ==
    IF Len(vals) = 0 THEN "[]" ELSE "[\"" \o vals[1] \o "\"]"

\* client.ProcessContractReturn(web3Url, contractReturn): [fetchedWeb3Url, err]
ProcessContractReturn(web3Url, contractReturn) ==
    LET init == [ZeroFetchedWeb3URL EXCEPT !.HttpHeaders = EmptyMap]
        processing == web3Url.ContractReturnProcessing
        bytesValue == UnpackValue(contractReturn, "bytes")
        types == web3Url.JsonEncodedValueTypes
        values == IF Len(types) = 0 THEN [err |-> NoError, val |-> <<>>]
                  ELSE UnpackValue(contractReturn, types[1])
        badOutput == Web3Error(StatusBadRequest, "Unable to parse contract output")
    IN  IF processing = ""
        THEN [fetchedWeb3Url |-> init, err |-> PlainError("Missing ContractReturnProcessing field")]
        ELSE IF processing = ContractReturnProcessingABIEncodedBytes
        THEN IF bytesValue.err # NoError THEN [fetchedWeb3Url |-> init, err |-> badOutput]
             ELSE [fetchedWeb3Url |->
                        [Output |-> bytesValue.val, HttpCode |-> 200,
                         HttpHeaders |-> IF web3Url.DecodedABIEncodedBytesMimeType # ""
                                         THEN OneHeader("Content-Type", web3Url.DecodedABIEncodedBytesMimeType)
                                         ELSE EmptyMap],
                   err |-> NoError]
        ELSE IF processing = ContractReturnProcessingRawBytesJsonEncoded
        THEN [fetchedWeb3Url |->
                   [Output |-> StrBytes(JsonStrings(<<"0x" \o Bytes2Hex(contractReturn)>>)), HttpCode |-> 200,
                    HttpHeaders |-> OneHeader("Content-Type", "application/json")],
              err |-> NoError]
        ELSE IF processing = ContractReturnProcessingJsonEncodeValues
        THEN IF values.err # NoError THEN [fetchedWeb3Url |-> init, err |-> badOutput]
             ELSE [fetchedWeb3Url |->
                        [Output |-> StrBytes(JsonStrings(IF Len(types) = 0 THEN <<>>
                                                        ELSE <<ToJSON(types[1], values.val)>>)),
                         HttpCode |-> 200,
                         HttpHeaders |-> OneHeader("Content-Type", "application/json")],
                   err |-> NoError]
        ELSE [fetchedWeb3Url |-> init, err |-> NoError]

(***************************************************************************)
(* FetchContractReturn                                                     *)
(***************************************************************************)

NoDataMessage ==
    "The contract returned no data (\"0x\").\n\nThis could be due to any of the following:\n"
    \o "  - The contract does not have the requested function,\n"
    \o "  - The parameters passed to the contract function may be invalid, or\n"
    \o "  - The address is not a contract."

\* FetchContractReturn without the check of an empty return of lines 360-362
FetchContractReturnNoEmptyCheck(web3Url, dialOk, resp) ==
    IF web3Url.ContractCallMode = ContractCallModeMethod /\ ~web3Url.PackOk
    THEN [contractReturn |-> <<>>, err |-> PlainError("abi: cannot pack the arguments"),
          dialed |-> FALSE, called |-> FALSE]
    ELSE IF ~dialOk
    THEN [contractReturn |-> <<>>, err |-> Web3Error(StatusBadRequest, DialFailed.msg),
          dialed |-> TRUE, called |-> FALSE]
    ELSE IF ~resp.ok
    THEN [contractReturn |-> <<>>, err |-> Web3Error(StatusNotFound, resp.msg),
          dialed |-> TRUE, called |-> TRUE]
    ELSE [contractReturn |-> resp.bs, err |-> NoError, dialed |-> TRUE, called |-> TRUE]

\* client.FetchContractReturn(web3Url), the dial having succeeded or not and
\* the call having answered resp: [contractReturn, err, dialed, called].
\* The error of an empty ContractCallMode is assigned to err and then
\* overwritten by the dial's.
FetchContractReturn(web3Url, dialOk, resp) ==
    IF web3Url.ContractCallMode = ContractCallModeMethod /\ ~web3Url.PackOk
    THEN [contractReturn |-> <<>>, err |-> PlainError("abi: cannot pack the arguments"),
          dialed |-> FALSE, called |-> FALSE]
    ELSE IF ~dialOk
    THEN [contractReturn |-> <<>>, err |-> Web3Error(StatusBadRequest, DialFailed.msg),
          dialed |-> TRUE, called |-> FALSE]
    ELSE IF ~resp.ok
    THEN [contractReturn |-> <<>>, err |-> Web3Error(StatusNotFound, resp.msg),
          dialed |-> TRUE, called |-> TRUE]
    ELSE IF Len(resp.bs) = 0
    THEN [contractReturn |-> resp.bs, err |-> Web3Error(StatusNotFound, NoDataMessage),
          dialed |-> TRUE, called |-> TRUE]
    ELSE [contractReturn |-> resp.bs, err |-> NoError, dialed |-> TRUE, called |-> TRUE]

(***************************************************************************)
(* The state: the requests in progress (one FetchUrl call per thread) and  *)
(* the client's cache                                                      *)
(***************************************************************************)

VARIABLES
    req,    \* per thread: the FetchUrl call it is in, or its last one
    cache,  \* client.nameAddrCache
    nreq,   \* how many FetchUrl calls were made
    world   \* the name service: AnyWorld, or the URL asked for and the
            \* answer of each of its methods, which then never change

vars == <<req, cache, nreq, world>>

\* how many FetchUrl calls a behaviour makes
MaxRequests == 2

\* the URLs FetchUrl is called with
Urls ==
    {"web3://" \o AddrHex(1) \o ":1/",
     "web3://a.eth/",
     "web3://b.w3q:1/x",
     "web3://foo.sim:1/",
     "http://a.eth/",
     "web3://a.eth:7/",
     "web3://nodot/",
     "web3://a.xyz/",
     "web3:/a.eth",
     "Web3://a.eth/",
     "web3://a.eth:100/",
     "web3://a.eth:99999999999999999999/"}

\* an entry of a request's log of RPC and cache operations: a dial of a
\* chain's endpoint, a call of the method op on the contract to (key being
\* the argument of pointers), or cache.get and cache.add with their key
Op(op, chain, to, key) == [op |-> op, chain |-> chain, to |-> to, key |-> key]

\* no answer yet
NoResponse == [ok |-> TRUE, bs |-> <<>>, msg |-> "none"]

\* the dial of the endpoint of a chain
Dial(chain) == Op("dial", chain, ZeroAddress, "")

\* the host was not looked up (yet)
NotLooked == NotResolved(PlainError("not looked up"))

\* a thread not in FetchUrl.  steps are the calls FetchUrl made that
\* returned, each with its error; calls are the RPC and cache operations;
\* looked is the (address, target chain) the cache or the resolver gave;
\* firstResp is the answer of webHandler or text, kept until the probe;
\* lastResp is the answer of the last call; direct is set when the thread
\* is in getAddressFromNameService, called on its own, and not in FetchUrl
IdleRequest ==
    [pc |-> "idle", direct |-> FALSE, url |-> "", hostname |-> "", cacheKey |-> "",
     web3Url |-> ZeroWeb3URL, resolver |-> ZeroAddress, hit |-> FALSE,
     looked |-> NotLooked,
     contractReturn |-> <<>>, fetchedUrl |-> ZeroFetchedWeb3URL, err |-> NoError,
     panicked |-> FALSE, steps |-> <<>>, calls |-> <<>>,
     firstResp |-> NoResponse, lastResp |-> NoResponse]

\* the request after the call op, answered resp
Called(r, op, resp) == [r EXCEPT !.calls = Append(@, op), !.lastResp = resp]

\* the request after the operation op
Logged(r, op) == [r EXCEPT !.calls = Append(@, op)]

\* the request ends in a panic (a nil dereference): FetchUrl does not return
Panicked(r) == [r EXCEPT !.pc = "done", !.panicked = TRUE]

(***************************************************************************)
(* FetchUrl: what it does when each of its three calls returns             *)
(***************************************************************************)

\* FetchUrl lines 126-129: ParseUrl returned (web3Url, e)
ParseUrlReturns(r, e) ==
    IF e # NoError
    THEN [r EXCEPT !.steps = Append(@, [fn |-> "ParseUrl", err |-> e]), !.pc = "done", !.err = e]
    ELSE [r EXCEPT !.steps = Append(@, [fn |-> "ParseUrl", err |-> e]), !.pc = "fetch"]

\* FetchUrl without the return of lines 133-135: FetchContractReturn
\* returned (contractReturn, e), and FetchUrl goes on whatever e is
FetchContractReturnGoesOn(r, contractReturn, e) ==
    [r EXCEPT !.steps = Append(@, [fn |-> "FetchContractReturn", err |-> e]), !.pc = "process",
              !.contractReturn = contractReturn]

\* FetchUrl lines 132-135: FetchContractReturn returned (contractReturn, e)
FetchContractReturnReturns(r, contractReturn, e) ==
    IF e # NoError
    THEN [r EXCEPT !.steps = Append(@, [fn |-> "FetchContractReturn", err |-> e]), !.pc = "done", !.err = e]
    ELSE [r EXCEPT !.steps = Append(@, [fn |-> "FetchContractReturn", err |-> e]), !.pc = "process",
                   !.contractReturn = contractReturn]

\* FetchUrl lines 138-143: ProcessContractReturn returned (fetchedUrl, e)
ProcessContractReturnReturns(r, fetchedUrl, e) ==
    [r EXCEPT !.steps = Append(@, [fn |-> "ProcessContractReturn", err |-> e]),
              !.pc = "done", !.fetchedUrl = fetchedUrl, !.err = e]

(***************************************************************************)
(* ParseUrl: the host resolved, from the cache or by the resolver          *)
(***************************************************************************)

\* lines 251-253 left out: the target chain of the resolved host is ignored
TargetChainIgnored(chainId, targetChain) == chainId

\* the chain of the Web3URL given the target chain of the resolved host
\* (lines 251-253)
TargetChainId(chainId, targetChain) == IF targetChain > 0 THEN targetChain ELSE chainId

\* lines 250-266 without the check of lines 255-258
CheckResolvedChainSkipped(r) == [r EXCEPT !.pc = "probe"]

\* lines 255-258: the chain the host resolved to must be a configured one
CheckResolvedChain(r) ==
    IF r.web3Url.ChainId \notin DOMAIN ChainConfigs
    THEN ParseUrlReturns(r, Web3Error(StatusBadRequest, "unsupported chain id: " \o Itoa(r.web3Url.ChainId)))
    ELSE [r EXCEPT !.pc = "probe"]

\* lines 250-258: the address and the chain of the resolved host
AfterLookup(r, res) ==
    CheckResolvedChain([r EXCEPT !.looked = res,
                                 !.web3Url.ContractAddress = res.addr,
                                 !.web3Url.ChainId = TargetChainId(@, res.chain)])

\* lines 242-249, the request: getAddressFromNameServiceWebHandler returned res
ResolutionReturns(r, res) ==
    IF res.err # NoError THEN ParseUrlReturns(r, res.err)
    ELSE AfterLookup(Logged(r, Op("cache.add", 0, res.addr, r.cacheKey)), res)

\* lines 242-249 with the add moved before the check of the error
CacheAlwaysAdded(c, key, res) == CacheAdd(c, key, res.addr, res.chain)

\* lines 242-249 with the add made only for a configured target chain
CacheAddedIfConfigured(c, key, res) ==
    IF res.err # NoError \/ res.chain \notin DOMAIN ChainConfigs \cup {0} THEN c
    ELSE CacheAdd(c, key, res.addr, res.chain)

\* lines 242-249, the cache: getAddressFromNameServiceWebHandler returned res
CacheAfterResolution(c, key, res) ==
    IF res.err # NoError THEN c ELSE CacheAdd(c, key, res.addr, res.chain)

\* thread t's resolver returns res to ParseUrl
ParseUrlResolution(t, r, res) ==
    /\ req' = [req EXCEPT ![t] = ResolutionReturns(r, res)]
    /\ cache' = CacheAfterResolution(cache, r.cacheKey, res)

\* thread t's resolver returns res: getAddressFromNameServiceWebHandler to
\* ParseUrl, getAddressFromNameService to its caller
Resolution(t, r, res) ==
    IF r.direct
    THEN /\ req' = [req EXCEPT ![t] = [r EXCEPT !.pc = "done", !.looked = res, !.err = res.err]]
         /\ UNCHANGED cache
    ELSE ParseUrlResolution(t, r, res)

(***************************************************************************)
(* The actions                                                             *)
(***************************************************************************)

\* a name service whose answers are not fixed: each call gets any answer
AnyWorld == [url |-> "", resolver |-> NoResponse, first |-> NoResponse, addr |-> NoResponse]

\* the URLs FetchUrl is called with
UrlsAsked == IF world = AnyWorld THEN Urls ELSE {world.url}

\* the answers a call of a method of the name service can get, all being
\* the answers it can get when they are not fixed (addr stands for addr(node)
\* and for pointers(name), first for webHandler(node) and text(node, key))
Answers(method, all) == IF world = AnyWorld THEN all ELSE {world[method]}

Init ==
    /\ req = [t \in {1} |-> IdleRequest]
    /\ cache = EmptyMap
    /\ nreq = 0
    /\ world = AnyWorld

\* the request of a URL parsed as h
NewRequest(url, h) ==
    [IdleRequest EXCEPT !.url = url, !.hostname = h.hostname, !.cacheKey = h.cacheKey, !.web3Url = h.web3Url]

\* lines 237-240 and 250: the cache was read
Lookup(r, got) ==
    IF got.hit THEN AfterLookup([r EXCEPT !.hit = TRUE], Resolved(got.addr, got.chain))
    ELSE [r EXCEPT !.pc = "nsDial"]

\* ParseUrl with the lookup of lines 214-249 made for every host
ParseUrlStartAlwaysLooksUp(r, h, c) ==
    IF h.err # NoError THEN ParseUrlReturns(r, h.err)
    ELSE Lookup(Logged(r, Op("cache.get", 0, ZeroAddress, h.cacheKey)), CacheGet(c, h.cacheKey))

\* ParseUrl from its start to the cache lookup, h being ParseUrlHead(url)
ParseUrlStart(r, h, c) ==
    IF h.err # NoError THEN ParseUrlReturns(r, h.err)
    ELSE IF ~h.isName THEN [r EXCEPT !.pc = "probe"]
    ELSE Lookup(Logged(r, Op("cache.get", 0, ZeroAddress, h.cacheKey)), CacheGet(c, h.cacheKey))

\* FetchUrl(url) is called: ParseUrl up to the cache lookup (lines 146-240)
Start(t) ==
    /\ req[t].pc \in {"idle", "done"}
    /\ nreq < MaxRequests
    /\ \E url \in UrlsAsked :
        \E h \in {ParseUrlHead(url)} :
            req' = [req EXCEPT ![t] = ParseUrlStart(NewRequest(url, h), h, cache)]
    /\ nreq' = nreq + 1
    /\ UNCHANGED <<cache, world>>

\* the chain of the name service of request r
NsChain(r) == r.web3Url.HostDomainNameResolverChainId

\* lines 129-136 with the branch of line 138 taken for every name service
NsDialedAlwaysResolver(t, r, cfg, dialOk) ==
    IF ~dialOk
    THEN Resolution(t, r, NotResolved(Web3Error(StatusInternalServerError, "internal server error")))
    ELSE /\ req' = [req EXCEPT ![t] = [r EXCEPT !.pc = "nsResolver"]]
         /\ UNCHANGED cache

\* the dial of both resolvers (lines 96-103 and 129-136)
NsDialed(t, r, cfg, dialOk) ==
    IF ~dialOk
    THEN Resolution(t, r, NotResolved(Web3Error(StatusInternalServerError, "internal server error")))
    ELSE /\ req' = [req EXCEPT ![t] =
               [r EXCEPT !.pc = IF cfg.nsInfo.NSType # SimpleNameService THEN "nsResolver" ELSE "nsPointers"]]
         /\ UNCHANGED cache

\* both resolvers before the dial (lines 88-95 and 121-128)
NsConfigured(t, r, cfg) ==
    IF IsHexAddress(r.hostname) THEN Resolution(t, r, Resolved(HexToAddress(r.hostname), 0))
    ELSE IF cfg.err # NoError THEN Resolution(t, r, NotResolved(cfg.err))
    ELSE \/ NsDialed(t, Logged(r, Dial(NsChain(r))), cfg, TRUE)
         \/ NsDialed(t, Called(r, Dial(NsChain(r)), DialFailed), cfg, FALSE)

\* getAddressFromNameServiceWebHandler and getAddressFromNameService up to
\* the dial (lines 121-136 and 88-103)
NsDial(t) ==
    /\ req[t].pc = "nsDial"
    /\ UNCHANGED <<nreq, world>>
    /\ NsConfigured(t, req[t], getConfigs(NsChain(req[t]), req[t].hostname))

\* lines 140-143 and 107-111: getResolver returned got; only
\* getAddressFromNameServiceWebHandler has a first call before addr
NsResolved(t, r, got) ==
    IF got.err # NoError THEN Resolution(t, r, NotResolved(got.err))
    ELSE /\ req' = [req EXCEPT ![t] =
               [r EXCEPT !.pc = IF r.direct THEN "nsAddr" ELSE "nsFirst", !.resolver = got.resolver]]
         /\ UNCHANGED cache

\* the registry of the name service of request r
NsRegistry(r) == HexToAddress(getConfigs(NsChain(r), r.hostname).nsInfo.NSAddr)

\* getResolver: resolver(node) on the registry (lines 137-143, 192-207)
NsResolver(t) ==
    /\ req[t].pc = "nsResolver"
    /\ UNCHANGED <<nreq, world>>
    /\ \E resp \in Answers("resolver", ResolverResponses), code \in HandleCallErrorCodes :
            NsResolved(t, Called(req[t], Op("resolver", NsChain(req[t]), NsRegistry(req[t]), ""), resp),
                       getResolver(resp, code, req[t].hostname))

\* lines 157-167: the webHandler or text call was answered
NsFirstAnswered(t, r, step) ==
    IF step.fallback
    THEN /\ req' = [req EXCEPT ![t] = [r EXCEPT !.pc = "nsAddr"]]
         /\ UNCHANGED cache
    ELSE Resolution(t, r, step.res)

\* the kind of the name service of request r
NsType(r) == r.web3Url.HostDomainNameResolver

\* the method of the first call on the resolver (lines 146-152)
FirstMethod(nsType) == IF nsType = Web3QNameService THEN "webHandler" ELSE "text"

\* what the first call on the resolver can answer
FirstResponses(nsType) == IF nsType = Web3QNameService THEN WebHandlerResponses ELSE TextResponses

\* webHandler(node) or text(node, "contentcontract") on the resolver
\* (lines 144-166)
NsFirst(t) ==
    /\ req[t].pc = "nsFirst"
    /\ UNCHANGED <<nreq, world>>
    /\ \E resp \in Answers("first", FirstResponses(NsType(req[t]))), code \in HandleCallErrorCodes :
            NsFirstAnswered(t,
                [Called(req[t], Op(FirstMethod(NsType(req[t])), NsChain(req[t]), req[t].resolver, ""), resp)
                    EXCEPT !.firstResp = resp],
                webHandlerStep(NsType(req[t]), resp, code))

\* resolve returned out, or panicked
ResolveReturned(t, r, out) ==
    IF out.panic
    THEN /\ req' = [req EXCEPT ![t] = Panicked(r)]
         /\ UNCHANGED cache
    ELSE Resolution(t, r, out.res)

\* resolve: addr(node) on the resolver (line 167)
NsAddr(t) ==
    /\ req[t].pc = "nsAddr"
    /\ UNCHANGED <<nreq, world>>
    /\ \E resp \in Answers("addr", AddrResponses) :
            ResolveReturned(t, Called(req[t], Op("addr", NsChain(req[t]), req[t].resolver, ""), resp),
                            resolve(resp))

\* the argument of pointers (lines 115 and 171)
PointersArg(nameWithSuffix) == "0x" \o Bytes2Hex(SimpleNode(nameWithSuffix))

\* resolve: pointers(name) on the registry of a simple name service
\* (lines 170-172 and 114-116)
NsPointers(t) ==
    /\ req[t].pc = "nsPointers"
    /\ UNCHANGED <<nreq, world>>
    /\ \E resp \in Answers("addr", AddrResponses) :
            ResolveReturned(t, Called(req[t], Op("pointers", NsChain(req[t]), NsRegistry(req[t]), PointersArg(req[t].hostname)), resp),
                            resolve(resp))

\* lines 266-294: the resolve mode is in r.web3Url; the parsing the mode
\* asks for ends as out, and ParseUrl returns
ModeParsed(r, out) == ParseUrlReturns([r EXCEPT !.web3Url = out.web3Url], out.err)

\* checkResolveMode dials without looking at the error: after a failed
\* dial ethClient is nil, and calling it panics
Probed(t, r, dialOk) ==
    IF ~dialOk THEN req' = [req EXCEPT ![t] = Panicked(r)]
    ELSE \E resp \in ResolveModeResponses :
            \E out \in ModeParseOutcomes([r.web3Url EXCEPT !.ResolveMode = checkResolveMode(resp)]) :
                req' = [req EXCEPT ![t] =
                    ModeParsed(Called(r, Op("resolveMode", r.web3Url.ChainId, r.web3Url.ContractAddress, ""), resp),
                               out)]

\* the end of ParseUrl: checkResolveMode, then the parsing the mode asks
\* for (lines 266-294, 463-484)
Probe(t) ==
    /\ req[t].pc = "probe"
    /\ UNCHANGED <<cache, nreq, world>>
    /\ \/ Probed(t, [Logged(req[t], Dial(req[t].web3Url.ChainId))
                          EXCEPT !.firstResp = NoResponse, !.lastResp = NoResponse], TRUE)
       \/ Probed(t, [Called(req[t], Dial(req[t].web3Url.ChainId), DialFailed)
                          EXCEPT !.firstResp = NoResponse], FALSE)

\* the request after the dial and the call that FetchContractReturn made
Fetched(r, f, resp) ==
    IF f.called
    THEN Called(Logged(r, Dial(r.web3Url.ChainId)),
                Op("call", r.web3Url.ChainId, r.web3Url.ContractAddress, ""), resp)
    ELSE IF f.dialed THEN Called(r, Dial(r.web3Url.ChainId), DialFailed)
    ELSE [r EXCEPT !.lastResp = NoResponse]

\* FetchContractReturn (lines 297-365)
Fetch(t) ==
    /\ req[t].pc = "fetch"
    /\ UNCHANGED <<cache, nreq, world>>
    /\ \E dialOk \in BOOLEAN, resp \in UserCallResponses :
        \E f \in {FetchContractReturn(req[t].web3Url, dialOk, resp)} :
            req' = [req EXCEPT ![t] = FetchContractReturnReturns(Fetched(req[t], f, resp), f.contractReturn, f.err)]

\* ProcessContractReturn (lines 368-442)
Process(t) ==
    /\ req[t].pc = "process"
    /\ UNCHANGED <<cache, nreq, world>>
    /\ \E p \in {ProcessContractReturn(req[t].web3Url, req[t].contractReturn)} :
            req' = [req EXCEPT ![t] = ProcessContractReturnReturns(req[t], p.fetchedWeb3Url, p.err)]

\* time passes: every entry of the cache has one tick less left
Tick ==
    /\ \E k \in DOMAIN cache : cache[k].ttl > 0
    /\ cache' = [k \in DOMAIN cache |-> [cache[k] EXCEPT !.ttl = IF @ > 0 THEN @ - 1 ELSE 0]]
    /\ UNCHANGED <<req, nreq, world>>

\* the cache's periodic cleanup deletes the expired entries
Cleanup ==
    /\ \E k \in DOMAIN cache : cache[k].ttl = 0
    /\ cache' = [k \in {j \in DOMAIN cache : cache[j].ttl > 0} |-> cache[k]]
    /\ UNCHANGED <<req, nreq, world>>

Next ==
    \/ \E t \in DOMAIN req : Start(t)
    \/ \E t \in DOMAIN req : NsDial(t)
    \/ \E t \in DOMAIN req : NsResolver(t)
    \/ \E t \in DOMAIN req : NsFirst(t)
    \/ \E t \in DOMAIN req : NsAddr(t)
    \/ \E t \in DOMAIN req : NsPointers(t)
    \/ \E t \in DOMAIN req : Probe(t)
    \/ \E t \in DOMAIN req : Fetch(t)
    \/ \E t \in DOMAIN req : Process(t)
    \/ Tick
    \/ Cleanup

Spec == Init /\ [][Next]_vars

\* the names and the chains getAddressFromNameService is called with
ResolverNames == {"a.eth", "b.w3q", "foo.sim", "nodot", "a.xyz", AddrHex(1)}
ResolverChains == {1, 100, 7}

\* the thread of a call getAddressFromNameService(chain, name)
DirectRequest(chain, name) ==
    [IdleRequest EXCEPT !.direct = TRUE, !.pc = "nsDial", !.hostname = name,
                        !.web3Url.HostDomainNameResolverChainId = chain]

\* getAddressFromNameService(chain, name) is called (ens.go line 88)
CallResolver(t) ==
    /\ req[t].pc \in {"idle", "done"}
    /\ nreq < MaxRequests
    /\ \E name \in ResolverNames, chain \in ResolverChains :
            req' = [req EXCEPT ![t] = DirectRequest(chain, name)]
    /\ nreq' = nreq + 1
    /\ UNCHANGED <<cache, world>>

\* FetchUrl and getAddressFromNameService called one after the other
NextNs ==
    \/ Next
    \/ \E t \in DOMAIN req : CallResolver(t)

SpecNs == Init /\ [][NextNs]_vars

\* the strings parseChainSpecificAddress is called with: an address or
\* not, after a short name or not, with more after it or not
Eip3770Inputs ==
    LET lefts == {"", "gno", "GNO", "oth", "unk"}
        rights == {AddrHex(1), AddrHex(3), Bytes2Hex(Addr(3)), "0x12", "zz", ""}
        tails == {"", ":", ":x"}
    IN  {l \o ":" \o r \o tl : l \in lefts, r \in rights, tl \in tails}
            \cup {r \o tl : r \in rights, tl \in tails}

\* the thread of a call parseChainSpecificAddress(addr), after its return
AddressParsed(addr, res) ==
    [IdleRequest EXCEPT !.direct = TRUE, !.pc = "parsed", !.url = addr, !.looked = res, !.err = res.err]

\* client.parseChainSpecificAddress(addr) is called and returns (ens.go
\* lines 227-244)
ParseAddress(t) ==
    /\ req[t].pc \in {"idle", "parsed"}
    /\ nreq < MaxRequests
    /\ \E addr \in Eip3770Inputs :
            req' = [req EXCEPT ![t] = AddressParsed(addr, parseChainSpecificAddress(addr))]
    /\ nreq' = nreq + 1
    /\ UNCHANGED <<cache, world>>

NextEip3770 == \E t \in DOMAIN req : ParseAddress(t)

SpecEip3770 == Init /\ [][NextEip3770]_vars

\* the Web3URLs and the bytes ProcessContractReturn is called with: every
\* ContractReturnProcessing of lines 42-54 and the empty one
ProcessInputs ==
    LET processings == {"", ContractReturnProcessingABIEncodedBytes, ContractReturnProcessingRawBytesJsonEncoded,
                        ContractReturnProcessingJsonEncodeValues, ContractReturnProcessingErc5219}
        plans == {Plan(ContractCallModeCalldata, TRUE, p, mime, types) :
                    p \in processings, mime \in {"", "text/html"}, types \in {<<>>, <<"uint256">>}}
    IN  {[web3Url |-> WithPlan(ZeroWeb3URL, plan), contractReturn |-> bs] :
            plan \in plans, bs \in {<<>>, <<1>>, Word(42), AbiDynamic(StrBytes("hi"))}}

\* client.ProcessContractReturn(web3Url, contractReturn) is called on its
\* own and returns (part_000 lines 368-442)
CallProcess(t) ==
    /\ req[t].pc \in {"idle", "done"}
    /\ nreq < MaxRequests
    /\ \E in \in ProcessInputs :
        \E p \in {ProcessContractReturn(in.web3Url, in.contractReturn)} :
            req' = [req EXCEPT ![t] =
                ProcessContractReturnReturns(
                    [IdleRequest EXCEPT !.direct = TRUE, !.web3Url = in.web3Url, !.contractReturn = in.contractReturn],
                    p.fetchedWeb3Url, p.err)]
    /\ nreq' = nreq + 1
    /\ UNCHANGED <<cache, world>>

NextProcess == \E t \in DOMAIN req : CallProcess(t)

SpecProcess == Init /\ [][NextProcess]_vars

(***************************************************************************)
(* Two threads in ParseUrl for the same name, the name service answering   *)
(* each method the same way every time: the steps up to the end of the     *)
(* lookup of the host (lines 233-258), which are those that read and write *)
(* the cache                                                               *)
(***************************************************************************)

\* the name services that never change, each with the URL of one of its names
Worlds ==
    {[url |-> "web3://a.eth/", resolver |-> a, first |-> b, addr |-> c] :
        a \in ResolverResponses, b \in TextResponses, c \in AddrResponses}
    \cup {[url |-> "web3://b.w3q:1/x", resolver |-> a, first |-> b, addr |-> c] :
        a \in ResolverResponses, b \in WebHandlerResponses, c \in AddrResponses}
    \cup {[url |-> "web3://foo.sim:1/", resolver |-> NoResponse, first |-> NoResponse, addr |-> c] :
        c \in AddrResponses}

InitConc ==
    /\ req = [t \in {1, 2} |-> IdleRequest]
    /\ cache = EmptyMap
    /\ nreq = 0
    /\ world \in Worlds

NextConc ==
    \/ \E t \in DOMAIN req : Start(t)
    \/ \E t \in DOMAIN req : NsDial(t)
    \/ \E t \in DOMAIN req : NsResolver(t)
    \/ \E t \in DOMAIN req : NsFirst(t)
    \/ \E t \in DOMAIN req : NsAddr(t)
    \/ \E t \in DOMAIN req : NsPointers(t)
    \/ Tick
    \/ Cleanup

SpecConc == InitConc /\ [][NextConc]_vars

(***************************************************************************)
(* The properties of FetchUrl and of name resolution                       *)
(***************************************************************************)

\* the last RPC or cache operation of request r
LastOp(r) == IF r.calls = <<>> THEN "" ELSE r.calls[Len(r.calls)].op

\* how many times request r made the operation op
Count(r, op) == Cardinality({i \in DOMAIN r.calls : r.calls[i].op = op})

\* ParseUrl returned without an error
Parsed(r) == r.steps # <<>> /\ r.steps[1].err = NoError

\* the host of request r is a name (the cache was read)
NameHost(r) == r.cacheKey # ""

\* C1: FetchUrl calls ParseUrl, FetchContractReturn and
\* ProcessContractReturn in this order; a call that returns an error is the
\* last one (no contract call after a failed parse, no processing after a
\* failed call), and FetchUrl returns the error of its last call.
C1_FetchUrlShortCircuits ==
    \A t \in DOMAIN req :
        LET r == req[t]
            order == <<"ParseUrl", "FetchContractReturn", "ProcessContractReturn">>
        IN  /\ Len(r.steps) <= 3
            /\ \A i \in DOMAIN r.steps : r.steps[i].fn = order[i]
            /\ \A i \in DOMAIN r.steps : i < Len(r.steps) => r.steps[i].err = NoError
            /\ r.pc = "fetch" => Len(r.steps) = 1
            /\ r.pc = "process" => Len(r.steps) = 2
            /\ (r.pc = "done" /\ ~r.panicked) =>
                    /\ r.steps # <<>>
                    /\ r.err = r.steps[Len(r.steps)].err
                    /\ r.err = NoError => Len(r.steps) = 3
            /\ (r.steps # <<>> /\ r.steps[1].err # NoError) => Count(r, "call") = 0
            /\ (Len(r.steps) >= 2 /\ r.steps[2].err # NoError) => r.fetchedUrl = ZeroFetchedWeb3URL

\* FetchContractReturn returned an error, and FetchUrl returned it
C1_Witness ==
    \E t \in DOMAIN req :
        /\ req[t].pc = "done"
        /\ Len(req[t].steps) = 2
        /\ req[t].steps[2].err # NoError
        /\ req[t].err = req[t].steps[2].err

\* C2: when the host is a name and ParseUrl succeeds, ChainId is the
\* target chain that the resolution or the cache gave if it is not zero,
\* and HostDomainNameResolverChainId otherwise.
C2_ChainIdOfResolvedHost ==
    \A t \in DOMAIN req :
        (NameHost(req[t]) /\ Parsed(req[t])) =>
            /\ req[t].looked.err = NoError
            /\ req[t].web3Url.ChainId =
                    IF req[t].looked.chain # 0 THEN req[t].looked.chain
                    ELSE req[t].web3Url.HostDomainNameResolverChainId

\* ParseUrl succeeded with an address and a non-zero target chain read
\* from the cache
C2_Witness ==
    \E t \in DOMAIN req :
        /\ Parsed(req[t])
        /\ req[t].hit
        /\ req[t].looked.chain = 100
        /\ req[t].web3Url.HostDomainNameResolverChainId = 1
        /\ req[t].web3Url.ChainId = 100

\* the calls of a name service
NameServiceOps == {"resolver", "text", "webHandler", "addr", "pointers"}

\* where a request is while its host is resolved
ResolvingPcs == {"nsDial", "nsResolver", "nsFirst", "nsAddr", "nsPointers"}

\* the state part of C3: the key, the cache read first, no call of the
\* name service after a hit, one resolution after a miss
C3_Calls ==
    \A t \in DOMAIN req :
        LET r == req[t]
            chain == r.web3Url.HostDomainNameResolverChainId
        IN  NameHost(r) =>
                /\ r.cacheKey = Itoa(chain) \o ":" \o r.hostname
                /\ r.url = "web3://b.w3q:1/x" => r.cacheKey = "1:b.w3q"
                /\ r.url = "web3://a.eth/" => r.cacheKey = "1:a.eth"
                /\ r.calls[1] = Op("cache.get", 0, ZeroAddress, r.cacheKey)
                /\ Count(r, "cache.get") = 1
                /\ \A op \in NameServiceOps : Count(r, op) <= 1
                /\ r.hit =>
                        /\ \A op \in NameServiceOps \cup {"cache.add"} : Count(r, op) = 0
                        /\ r.pc \notin ResolvingPcs
                        /\ r.web3Url.ContractAddress = r.looked.addr
                /\ (~r.hit /\ r.pc # "nsDial") => r.calls[2] = Dial(chain)

\* the step part of C3: a hit leaves the cache alone and gives its entry;
\* a miss starts the resolution; the end of a resolution adds its result
\* under the key if it succeeded and leaves the cache alone if it did not
C3_Steps ==
    \A t \in DOMAIN req :
        LET r == req[t]
            n == req'[t]
            key == n.cacheKey
        IN  /\ (r.pc \in {"idle", "done"} /\ n # r /\ NameHost(n)) =>
                    /\ cache' = cache
                    /\ n.hit <=> (key \in DOMAIN cache /\ cache[key].ttl > 0)
                    /\ n.hit => n.looked = Resolved(cache[key].addr, cache[key].chain)
                    /\ ~n.hit => n.pc = "nsDial"
            /\ (r.pc \in ResolvingPcs /\ n.pc \notin ResolvingPcs) =>
                    IF n.looked.err = NoError
                    THEN /\ key \in DOMAIN cache'
                         /\ cache'[key] = [addr |-> n.looked.addr, chain |-> n.looked.chain, ttl |-> TtlTicks]
                         /\ \A k \in DOMAIN cache' \ {key} : k \in DOMAIN cache /\ cache'[k] = cache[k]
                         /\ DOMAIN cache \subseteq DOMAIN cache'
                    ELSE cache' = cache
            /\ (r.pc \in ResolvingPcs /\ n.pc \in ResolvingPcs /\ n # r) => cache' = cache

\* C3: ParseUrl reads the cache under "<HostDomainNameResolverChainId>:
\* <hostname>" before any call of the name service; after a hit it makes
\* no such call and uses the cached address and target chain; after a miss
\* it resolves the name once, and adds the result under that key if and
\* only if the resolution succeeded.
C3_CacheBeforeNameService == []C3_Calls /\ [][C3_Steps]_vars

\* a request whose host was found in the cache goes on to the probe
C3_Witness ==
    \E t \in DOMAIN req :
        /\ req[t].hit
        /\ req[t].pc = "probe"
        /\ req[t].calls = <<Op("cache.get", 0, ZeroAddress, "1:a.eth")>>
        /\ req[t].web3Url.ContractAddress = Addr(3)

\* the ABI encoding of the empty string: the offset 32, the length 0
AbiEmptyString == RpcReturn(Word(32) \o Word(0))

\* C4: for an ens name whose resolver is not zero, when text(node,
\* "contentcontract") returns the ABI encoding of the empty string, addr(node)
\* is called on the same resolver; the address it returns is the contract
\* address, with the target chain 0, and ChainId stays the chain of the
\* name service.
C4_EmptyTextFallsBackToAddr ==
    \A t \in DOMAIN req :
        LET r == req[t]
            chain == r.web3Url.HostDomainNameResolverChainId
        IN  (r.web3Url.HostDomainNameResolver = "ens" /\ r.firstResp = AbiEmptyString) =>
                /\ r.resolver # ZeroAddress
                /\ r.calls[4] = Op("text", chain, r.resolver, "")
                /\ r.pc # "nsAddr" =>
                        /\ Len(r.calls) >= 5
                        /\ r.calls[5] = Op("addr", chain, r.resolver, "")
                        /\ (r.lastResp.ok /\ Len(r.lastResp.bs) = 32 /\ r.lastResp.bs # Zeros(32)) =>
                                /\ r.looked = [addr |-> SubSeq(r.lastResp.bs, 13, 32), chain |-> 0, err |-> NoError]
                                /\ r.web3Url.ContractAddress = SubSeq(r.lastResp.bs, 13, 32)
                                /\ r.web3Url.ChainId = chain

\* text returned the empty string, addr returned 0x00..03, and the host is
\* resolved to 0x00..03 in chain 1
C4_Witness ==
    \E t \in DOMAIN req :
        /\ req[t].web3Url.HostDomainNameResolver = "ens"
        /\ req[t].firstResp = AbiEmptyString
        /\ req[t].lastResp = RpcReturn(AbiAddress(Addr(3)))
        /\ req[t].pc = "probe"
        /\ req[t].web3Url.ContractAddress = Addr(3)
        /\ req[t].web3Url.ChainId = 1

\* C5: for a w3ns name, when webHandler(node) returns 32 zero bytes, the
\* zero address is not the result: addr(node) is called.
C5_EmptyWebHandlerFallsBackToAddr ==
    \A t \in DOMAIN req :
        (req[t].web3Url.HostDomainNameResolver = "w3ns" /\ req[t].firstResp = RpcReturn(Zeros(32))) =>
            \/ req[t].pc = "nsAddr"
            \/ Count(req[t], "addr") = 1

\* C6: when the webHandler or text call fails or returns no data, the
\* resolution goes on with addr(node).
C6_FirstCallMissFallsBackToAddr ==
    \A t \in DOMAIN req :
        (LastOp(req[t]) \in {"text", "webHandler"} /\ req[t].firstResp \in {RpcError, RpcReturn(<<>>)}) =>
            req[t].pc = "nsAddr"

\* C7: when addr(node) or pointers(name) fails, or returns 32 zero bytes
\* without an error, the resolver returns a Web3Error 404.
C7_ZeroAddressIsNotFound ==
    \A t \in DOMAIN req :
        (LastOp(req[t]) \in {"addr", "pointers"} /\ req[t].lastResp \in {RpcError, RpcReturn(Zeros(32))}) =>
            /\ ~req[t].panicked
            /\ req[t].err.kind = "Web3Error"
            /\ req[t].err.code = 404

\* the probe's dial failed
ProbeDialFailed(r) == r.lastResp = DialFailed /\ r.steps = <<>>

\* C8: the probe gives manual exactly for the 32 bytes "manual" and zeros,
\* resourceRequests exactly for the 32 bytes "5219" and zeros, auto for
\* every other answer, for an RPC error and for a failed dial; it never
\* fails the request.
C8_ProbeNeverFails ==
    \A t \in DOMAIN req :
        LET r == req[t]
            mode == r.web3Url.ResolveMode
        IN  /\ LastOp(r) = "resolveMode" =>
                    /\ ~r.panicked
                    /\ mode = "manual" <=> r.lastResp = RpcReturn(StrBytes("manual") \o Zeros(26))
                    /\ mode = "resourceRequests" <=> r.lastResp = RpcReturn(StrBytes("5219") \o Zeros(28))
                    /\ mode \in {"manual", "resourceRequests", "auto"}
            /\ ProbeDialFailed(r) => (~r.panicked /\ mode = "auto")

\* C9: FetchContractReturn returns a Web3Error 404 when the call fails,
\* and a Web3Error 404 with the message 'The contract returned no data
\* ("0x")...' when the call returns no bytes; FetchUrl then returns no
\* output and no HTTP code.
C9_FailedOrEmptyCallIsNotFound ==
    \A t \in DOMAIN req :
        LET r == req[t]
        IN  (LastOp(r) = "call" /\ (~r.lastResp.ok \/ r.lastResp.bs = <<>>)) =>
                /\ r.pc = "done"
                /\ Len(r.steps) = 2
                /\ r.err = r.steps[2].err
                /\ r.err.kind = "Web3Error"
                /\ r.err.code = 404
                /\ ~r.lastResp.ok => r.err.msg = r.lastResp.msg
                /\ r.lastResp.ok => SubSeq(r.err.msg, 1, 36) = "The contract returned no data (\"0x\")"
                /\ r.fetchedUrl.Output = <<>>
                /\ r.fetchedUrl.HttpCode = 0

\* the call returned no bytes and FetchUrl returned the 404
C9_Witness ==
    \E t \in DOMAIN req :
        /\ LastOp(req[t]) = "call"
        /\ req[t].lastResp = RpcReturn(<<>>)
        /\ req[t].pc = "done"
        /\ req[t].err.code = 404

\* C10: a failed dial, in the name resolution or in FetchContractReturn,
\* ends the request with a Web3Error 500.
C10_DialFailureIsInternalError ==
    \A t \in DOMAIN req :
        (req[t].lastResp = DialFailed /\ req[t].steps # <<>>) =>
            /\ req[t].pc = "done"
            /\ req[t].err.kind = "Web3Error"
            /\ req[t].err.code = 500

\* URLs that ParseUrl must refuse: no match of the grammar; a scheme that
\* is not "web3"; a chain that is not configured (7, and a number too large
\* for an int); a host that is no address and has no dot; a suffix that is
\* no name service of the chain (xyz on chain 1, eth on chain 100)
RefusedUrls ==
    {"web3:/a.eth", "http://a.eth/", "Web3://a.eth/", "web3://a.eth:7/",
     "web3://a.eth:99999999999999999999/", "web3://nodot/", "web3://a.xyz/", "web3://a.eth:100/"}

\* the state part of C11: the request of a refused URL ends with a
\* Web3Error 400, having made no dial, no call and no cache operation
C11_Refused ==
    \A t \in DOMAIN req :
        req[t].url \in RefusedUrls =>
            /\ req[t].pc = "done"
            /\ ~req[t].panicked
            /\ req[t].err.kind = "Web3Error"
            /\ req[t].err.code = 400
            /\ req[t].steps = <<[fn |-> "ParseUrl", err |-> req[t].err]>>
            /\ req[t].calls = <<>>
            /\ ~req[t].hit

\* the step part of C11: the request of a refused URL leaves the cache as it is
C11_CacheUntouched ==
    \A t \in DOMAIN req : (req'[t] # req[t] /\ req'[t].url \in RefusedUrls) => cache' = cache

\* C11: ParseUrl returns a Web3Error 400, with no RPC call and no read or
\* write of the cache, when the URL does not match the grammar, when its
\* scheme is not "web3", when its chain (1 if it has none) is not
\* configured, or when its host is no hex address and has no dot or a suffix
\* that is no name service of the chain.
C11_MalformedUrlIsBadRequest == []C11_Refused /\ [][C11_CacheUntouched]_vars

\* a URL with an unknown suffix was refused while the cache held an entry
C11_Witness ==
    \E t \in DOMAIN req :
        /\ req[t].url = "web3://a.xyz/"
        /\ req[t].pc = "done"
        /\ req[t].err.code = 400
        /\ req[t].calls = <<>>
        /\ cache # EmptyMap

\* C12: FetchContractReturn with a ContractCallMode that is neither method
\* nor calldata returns the plain error "ContractCallMode is empty",
\* whatever the endpoint answers.
C12_EmptyCallModeIsInternalError ==
    \A t \in DOMAIN req :
        (req[t].web3Url.ContractCallMode \notin {"method", "calldata"} /\ Len(req[t].steps) >= 2) =>
            /\ req[t].steps[2].err = [kind |-> "error", code |-> 0, msg |-> "ContractCallMode is empty"]
            /\ Count(req[t], "call") = 0

\* the ticks since the entry e of the cache was added
Age(e) == TtlTicks - e.ttl

\* the reads of C13: the ParseUrl of a name finds its key exactly when the
\* entry is younger than the TTL, whether or not the cleanup has removed
\* the older ones, and then uses the pair of the entry
C13_Gets ==
    \A t \in DOMAIN req :
        LET r == req[t]
            n == req'[t]
            key == n.cacheKey
        IN  (r.pc \in {"idle", "done"} /\ n # r /\ NameHost(n)) =>
                IF key \in DOMAIN cache /\ Age(cache[key]) < TtlTicks
                THEN /\ n.hit
                     /\ n.looked = [addr |-> cache[key].addr, chain |-> cache[key].chain, err |-> NoError]
                     /\ n.web3Url.ContractAddress = cache[key].addr
                ELSE /\ ~n.hit
                     /\ n.pc = "nsDial"
                     /\ n.web3Url.ContractAddress = ZeroAddress

\* the entries of C13: an entry keeps its pair and ages by one tick at a
\* time until it is added anew; only an entry as old as the TTL is removed
C13_Entries ==
    \A k \in DOMAIN cache :
        IF k \in DOMAIN cache'
        THEN \/ /\ cache'[k].addr = cache[k].addr
                /\ cache'[k].chain = cache[k].chain
                /\ Age(cache'[k]) \in {Age(cache[k]), Age(cache[k]) + 1}
                /\ Age(cache'[k]) <= TtlTicks
             \/ /\ Age(cache'[k]) = 0
                /\ \E t \in DOMAIN req :
                        /\ req[t].pc \in ResolvingPcs
                        /\ req[t].cacheKey = k
                        /\ req'[t].looked = [addr |-> cache'[k].addr, chain |-> cache'[k].chain, err |-> NoError]
        ELSE Age(cache[k]) = TtlTicks

\* C13: after an entry is added under a key, every get of the key before
\* the TTL has passed is a hit with the pair added, and every get after it
\* is a miss, whether or not the cleanup has run; ParseUrl uses no address
\* cached for longer than the TTL.
C13_CacheEntriesExpire == [][C13_Gets /\ C13_Entries]_vars

\* a request missed the cache while its expired entry was still there
C13_Witness ==
    \E t \in DOMAIN req :
        /\ req[t].pc = "nsDial"
        /\ ~req[t].hit
        /\ req[t].cacheKey \in DOMAIN cache
        /\ cache[req[t].cacheKey].ttl = 0

\* request r resolved its host itself, the cache having missed
ResolvedAfterMiss(r) == NameHost(r) /\ ~r.hit /\ r.looked.err = NoError

\* the address and the chain that ParseUrl got for the host of request r
ParsedHost(r) == <<r.web3Url.ContractAddress, r.web3Url.ChainId>>

\* C14: two ParseUrl calls for the same chain and hostname that both miss
\* the cache, the name service never changing, get the same contract
\* address and chain under every interleaving, and the cache holds under
\* their key the pair that the resolutions returned.
C14_ConcurrentMissesAgree ==
    \A t \in DOMAIN req :
        ResolvedAfterMiss(req[t]) =>
            /\ \A u \in DOMAIN req :
                    (ResolvedAfterMiss(req[u]) /\ req[u].cacheKey = req[t].cacheKey) =>
                        /\ req[u].looked = req[t].looked
                        /\ ParsedHost(req[u]) = ParsedHost(req[t])
            /\ req[t].cacheKey \in DOMAIN cache =>
                    /\ cache[req[t].cacheKey].addr = req[t].looked.addr
                    /\ cache[req[t].cacheKey].chain = req[t].looked.chain

\* both threads missed, both resolved the name while the other was
\* resolving it too, and the cache holds their pair
C14_Witness ==
    /\ DOMAIN req = {1, 2}
    /\ ResolvedAfterMiss(req[1])
    /\ ResolvedAfterMiss(req[2])
    /\ req[1].cacheKey = req[2].cacheKey
    /\ Len(req[1].calls) >= 5
    /\ Len(req[2].calls) >= 5
    /\ req[1].pc = "probe"
    /\ req[2].pc = "probe"
    /\ req[1].cacheKey \in DOMAIN cache
    /\ nreq = 2

\* "foo" right-padded to 32 bytes, in hex
FooPadded == "0x666f6f0000000000000000000000000000000000000000000000000000000000"

\* C15: for a name of a simple name service both
\* getAddressFromNameServiceWebHandler and getAddressFromNameService make
\* one contract call, pointers on the registry with the name without its
\* last 4 characters right-padded to 32 bytes, and never resolver,
\* webHandler, text or addr; the address pointers returns is the result,
\* with the target chain 0.
C15_SimpleNameServiceCallsPointers ==
    \A t \in DOMAIN req :
        LET r == req[t]
            chain == NsChain(r)
            cfg == getConfigs(chain, r.hostname)
            label == StrBytes(Slice(r.hostname, 1, Len(r.hostname) - 4))
        IN  (cfg.err = NoError /\ cfg.nsInfo.NSType = SimpleNameService) =>
                /\ \A op \in NameServiceOps \ {"pointers"} : Count(r, op) = 0
                /\ Count(r, "pointers") <= 1
                /\ \A i \in DOMAIN r.calls :
                        r.calls[i].op = "pointers" =>
                            /\ r.calls[i].chain = chain
                            /\ r.calls[i].to = HexToAddress(cfg.nsInfo.NSAddr)
                            /\ r.calls[i].key = "0x" \o Bytes2Hex(label \o Zeros(32 - Len(label)))
                            /\ r.hostname = "foo.sim" => r.calls[i].key = FooPadded
                /\ (/\ r.pc \notin {"idle", "nsDial", "nsPointers"}
                    /\ ~r.hit
                    /\ ~(Count(r, "dial") = 1 /\ LastOp(r) = "dial" /\ r.lastResp = DialFailed)) =>
                        Count(r, "pointers") = 1
                /\ (/\ LastOp(r) = "pointers"
                    /\ r.lastResp.ok
                    /\ Len(r.lastResp.bs) = 32
                    /\ r.lastResp.bs # Zeros(32)) =>
                        /\ r.looked = Resolved(SubSeq(r.lastResp.bs, 13, 32), 0)
                        /\ r.pc \notin ResolvingPcs
                        /\ ~r.direct => r.web3Url.ContractAddress = SubSeq(r.lastResp.bs, 13, 32)

\* getAddressFromNameService resolved foo.sim with one call of pointers,
\* after FetchUrl had resolved it through getAddressFromNameServiceWebHandler
C15_Witness ==
    \E t \in DOMAIN req :
        /\ req[t].direct
        /\ req[t].pc = "done"
        /\ req[t].hostname = "foo.sim"
        /\ req[t].calls = <<Dial(1), Op("pointers", 1, NsRegistry(req[t]), FooPadded)>>
        /\ req[t].looked = Resolved(Addr(3), 0)
        /\ "1:foo.sim" \in DOMAIN cache
        /\ cache["1:foo.sim"].addr = Addr(3)
        /\ cache["1:foo.sim"].chain = 0

\* the places of the colons of a string
Colons(s) == {i \in 1..Len(s) : Char(s, i) = ":"}

\* C16: parseChainSpecificAddress returns a hex address with no target
\* chain (0); for a string with one ':', a left part that lowercased is a
\* short name of Name2Chain and a right part that is a hex address, it
\* returns that address and the chain of the short name; for every other
\* string it returns a Web3Error with the code 400.
C16_ChainSpecificAddress ==
    \A t \in DOMAIN req :
        LET r == req[t]
            s == r.url
            i == CHOOSE j \in Colons(s) \cup {0} : j \in Colons(s) \/ Colons(s) = {}
            left == SubSeq(s, 1, i - 1)
            right == SubSeq(s, i + 1, Len(s))
        IN  r.pc = "parsed" =>
                IF IsHexAddress(s)
                THEN r.looked = [addr |-> HexToAddress(s), chain |-> 0, err |-> NoError]
                ELSE IF Cardinality(Colons(s)) = 1 /\ ToLower(left) \in {"gno", "oth"} /\ IsHexAddress(right)
                THEN /\ r.looked.err = NoError
                     /\ r.looked.addr = HexToAddress(right)
                     /\ r.looked.chain = Name2Chain[ToLower(left)]
                     /\ r.looked.chain = IF ToLower(left) = "gno" THEN 100 ELSE 5
                ELSE /\ r.looked.err.code = StatusBadRequest
                     /\ r.looked.err.kind = "Web3Error"
                     /\ r.err = r.looked.err

\* parseChainSpecificAddress lowercased the short name GNO and returned
\* the address after it with the chain 100
C16_Witness ==
    \E t \in DOMAIN req :
        /\ req[t].pc = "parsed"
        /\ req[t].url = "GNO:0x0000000000000000000000000000000000000003"
        /\ req[t].looked = [addr |-> Addr(3), chain |-> 100, err |-> NoError]

\* C17: when ProcessContractReturn succeeds, Content-Type is
\* "application/json" for jsonEncodeRawBytes and jsonEncodeValues; for
\* decodeABIEncodedBytes it is set if and only if
\* DecodedABIEncodedBytesMimeType is not empty, and is that type; there is
\* never another header; with an empty ContractReturnProcessing the error
\* is a plain error (not a Web3Error) and HttpCode stays 0.
C17_ContentTypeHeader ==
    \A t \in DOMAIN req :
        LET r == req[t]
            processing == r.web3Url.ContractReturnProcessing
            mime == r.web3Url.DecodedABIEncodedBytesMimeType
            headers == r.fetchedUrl.HttpHeaders
        IN  Len(r.steps) = 3 =>
                /\ DOMAIN headers \subseteq {"Content-Type"}
                /\ (r.err = NoError /\ processing \in {"jsonEncodeRawBytes", "jsonEncodeValues"}) =>
                        /\ DOMAIN headers = {"Content-Type"}
                        /\ headers["Content-Type"] = "application/json"
                /\ (r.err = NoError /\ processing = "decodeABIEncodedBytes") =>
                        /\ "Content-Type" \in DOMAIN headers <=> mime # ""
                        /\ mime # "" => headers["Content-Type"] = mime
                /\ r.err # NoError => DOMAIN headers = {}
                /\ processing = "" =>
                        /\ r.err # NoError
                        /\ r.err.kind = "error"
                        /\ r.fetchedUrl.HttpCode = 0

\* ProcessContractReturn decoded ABI-encoded bytes of a manual-mode URL
\* with the MIME type text/html, and set Content-Type to it
C17_Witness ==
    \E t \in DOMAIN req :
        /\ Len(req[t].steps) = 3
        /\ req[t].err = NoError
        /\ req[t].web3Url.ContractReturnProcessing = "decodeABIEncodedBytes"
        /\ req[t].web3Url.DecodedABIEncodedBytesMimeType = "text/html"
        /\ req[t].fetchedUrl.HttpCode = 200
        /\ req[t].fetchedUrl.HttpHeaders = [h \in {"Content-Type"} |-> "text/html"]

\* the place of a contract call in the order of a request's calls
Rank(op) ==
    IF op = "resolver" THEN 1
    ELSE IF op \in {"webHandler", "text"} THEN 2
    ELSE IF op \in {"addr", "pointers"} THEN 3
    ELSE IF op = "resolveMode" THEN 4
    ELSE 5

\* the contract calls of a request, among its operations
RpcCalls(r) == {i \in DOMAIN r.calls : r.calls[i].op \in NameServiceOps \cup {"resolveMode", "call"}}

\* C18: the contract calls of one FetchUrl are in the order resolver,
\* webHandler or text, addr or pointers, resolveMode, the user call, each
\* at most once; the calls of the name service go to its chain; once
\* ParseUrl is past the probe there was exactly one resolveMode call; it
\* and the user call go to the final ContractAddress on the final ChainId,
\* which for a resolved name is the target chain of the resolution if it
\* is not 0.
C18_OrderOfCalls ==
    \A t \in DOMAIN req :
        LET r == req[t]
            final == IF NameHost(r) /\ r.looked.chain # 0 THEN r.looked.chain
                     ELSE r.web3Url.HostDomainNameResolverChainId
        IN  /\ \A i, j \in RpcCalls(r) : i < j => Rank(r.calls[i].op) < Rank(r.calls[j].op)
            /\ \A i \in RpcCalls(r) :
                    IF r.calls[i].op \in NameServiceOps
                    THEN r.calls[i].chain = r.web3Url.HostDomainNameResolverChainId
                    ELSE /\ r.calls[i].chain = r.web3Url.ChainId
                         /\ r.calls[i].to = r.web3Url.ContractAddress
                         /\ NameHost(r) =>
                                /\ r.calls[i].to = r.looked.addr
                                /\ r.calls[i].chain = final
                         /\ r.calls[i - 1] = Dial(r.calls[i].chain)
            /\ (r.pc \in {"fetch", "process"} \/ Parsed(r) \/ Count(r, "call") > 0) =>
                    Count(r, "resolveMode") = 1
            /\ Count(r, "resolveMode") <= 1
            /\ Count(r, "call") <= 1
            /\ r.pc \in ResolvingPcs => Count(r, "resolveMode") = 0 /\ Count(r, "call") = 0

\* a.eth was resolved in chain 1 by text to an address in chain 100; the
\* probe and the user call went to that address in chain 100
C18_Witness ==
    \E t \in DOMAIN req :
        /\ req[t].url = "web3://a.eth/"
        /\ Len(req[t].calls) = 9
        /\ req[t].calls[3].op = "resolver"
        /\ req[t].calls[4].op = "text"
        /\ req[t].calls[4].chain = 1
        /\ req[t].calls[5].op = "cache.add"
        /\ req[t].calls[6] = Dial(100)
        /\ req[t].calls[7] = Op("resolveMode", 100, Addr(2), "")
        /\ req[t].calls[8] = Dial(100)
        /\ req[t].calls[9] = Op("call", 100, Addr(2), "")

\* resolver(node) was the last call of request r and returned 32 zero bytes
ResolverIsZero(r) == LastOp(r) = "resolver" /\ r.lastResp = RpcReturn(Zeros(32))

\* the state part of C19: the resolution has ended with the error
C19_Ended ==
    \A t \in DOMAIN req :
        LET r == req[t]
        IN  ResolverIsZero(r) =>
                /\ r.pc = "done"
                /\ ~r.panicked
                /\ r.err = [kind |-> "Web3Error", code |-> 400, msg |-> "Cannot get resolver for " \o r.hostname]
                /\ r.looked.err = r.err \/ r.looked = NotLooked
                /\ \A op \in {"webHandler", "text", "addr", "pointers", "resolveMode", "call", "cache.add"} :
                        Count(r, op) = 0
                /\ ~r.direct => r.steps = <<[fn |-> "ParseUrl", err |-> r.err]>>

\* the step part of C19: the thread makes no call more for this request;
\* its next step is a new request
C19_NoCallAfterwards ==
    \A t \in DOMAIN req :
        (ResolverIsZero(req[t]) /\ req'[t] # req[t]) =>
            /\ Len(req'[t].calls) <= 1
            /\ \A i \in DOMAIN req'[t].calls : req'[t].calls[i].op = "cache.get"
            /\ nreq' = nreq + 1

\* C19: when resolver(node) on the registry returns 32 zero bytes, both
\* getAddressFromNameServiceWebHandler and getAddressFromNameService end
\* with the Web3Error 400 "Cannot get resolver for <name>", and no
\* webHandler, text or addr call follows.
C19_ZeroResolverIsBadRequest == []C19_Ended /\ [][C19_NoCallAfterwards]_vars

\* FetchUrl of a w3q name ended with 400 after the registry returned the
\* zero resolver
C19_Witness ==
    \E t \in DOMAIN req :
        /\ req[t].url = "web3://b.w3q:1/x"
        /\ req[t].pc = "done"
        /\ req[t].calls = <<Op("cache.get", 0, ZeroAddress, "1:b.w3q"), Dial(1),
                            Op("resolver", 1, NsRegistry(req[t]), "")>>
        /\ req[t].lastResp = RpcReturn(Zeros(32))
        /\ req[t].err.code = 400
        /\ cache = EmptyMap

\* s is a hex address, or a short name of Name2Chain, a colon and a hex
\* address
ValidEip3770(s) ==
    \/ IsHexAddress(s)
    \/ /\ Cardinality(Colons(s)) = 1
       /\ \E i \in Colons(s) :
            /\ ToLower(SubSeq(s, 1, i - 1)) \in DOMAIN Name2Chain
            /\ IsHexAddress(SubSeq(s, i + 1, Len(s)))

\* text of request r returned the ABI encoding of a string that is not
\* empty and not a valid EIP-3770 value
TextIsInvalid(r) ==
    /\ r.web3Url.HostDomainNameResolver = "ens"
    /\ Count(r, "text") = 1
    /\ r.firstResp.ok
    /\ \E out \in {ParseOutput(r.firstResp.bs, "(string)")} :
            /\ out.err = NoError
            /\ out.res[1] # ""
            /\ ~ValidEip3770(out.res[1])

\* C20: for an ens name, when text(node, "contentcontract") returns a
\* string that is not empty and is not a valid EIP-3770 value,
\* getAddressFromNameServiceWebHandler fails with a Web3Error 400, which
\* ParseUrl and FetchUrl return; addr(node) is not called and nothing is
\* added to the cache.
C20_InvalidTextIsBadRequest ==
    \A t \in DOMAIN req :
        LET r == req[t]
        IN  TextIsInvalid(r) =>
                /\ r.pc = "done"
                /\ ~r.panicked
                /\ LastOp(r) = "text"
                /\ Count(r, "addr") = 0
                /\ Count(r, "cache.add") = 0
                /\ r.err.kind = "Web3Error"
                /\ r.err.code = 400
                /\ r.steps = <<[fn |-> "ParseUrl", err |-> r.err]>>

\* text returned unk:0x00..02, whose short name is not configured, and
\* FetchUrl ended with 400 without a call of addr
C20_Witness ==
    \E t \in DOMAIN req :
        /\ req[t].url = "web3://a.eth/"
        /\ req[t].firstResp = RpcReturn(AbiDynamic(StrBytes("unk:0x0000000000000000000000000000000000000002")))
        /\ req[t].pc = "done"
        /\ Len(req[t].calls) = 4
        /\ req[t].calls[4] = Op("text", 1, req[t].resolver, "")
        /\ req[t].err.code = 400

\* the host of the URL of request r is a hex address
HexHost(r) == ~r.direct /\ r.url # "" /\ IsHexAddress(r.hostname)

\* the state part of C21: the fields of the Web3URL and the calls
C21_Calls ==
    \A t \in DOMAIN req :
        LET r == req[t]
        IN  HexHost(r) =>
                /\ r.web3Url.ContractAddress = HexToAddress(r.hostname)
                /\ r.url = "web3://0x0000000000000000000000000000000000000001:1/" =>
                        r.web3Url.ContractAddress = Addr(1)
                /\ r.web3Url.HostDomainNameResolverChainId = 0
                /\ r.web3Url.HostDomainNameResolver = ""
                /\ ~r.hit
                /\ r.pc \notin ResolvingPcs
                /\ \A op \in NameServiceOps \cup {"cache.get", "cache.add"} : Count(r, op) = 0
                /\ Len(r.steps) <= 1 =>
                        /\ RpcCalls(r) \subseteq {2}
                        /\ Len(r.calls) <= 2
                        /\ \A i \in RpcCalls(r) :
                                r.calls[i] = Op("resolveMode", r.web3Url.ChainId, HexToAddress(r.hostname), "")
                /\ Parsed(r) => Count(r, "resolveMode") = 1

\* the step part of C21: no step of such a request changes the cache
C21_CacheUnchanged ==
    \A t \in DOMAIN req :
        (req'[t] # req[t] /\ HexHost(req'[t])) => cache' = cache

\* C21: for a URL whose host is a hex address ParseUrl leaves the cache
\* as it is, makes no call of a name service, sets ContractAddress to the
\* address, leaves HostDomainNameResolverChainId 0 and
\* HostDomainNameResolver empty, and calls nothing but resolveMode().
C21_HexHostSkipsNameService == []C21_Calls /\ [][C21_CacheUnchanged]_vars

\* ParseUrl succeeded for a hex-address host with the probe as its only
\* call, while the cache held the entry of an earlier request
C21_Witness ==
    \E t \in DOMAIN req :
        /\ HexHost(req[t])
        /\ req[t].pc = "fetch"
        /\ req[t].calls = <<Dial(1), Op("resolveMode", 1, Addr(1), "")>>
        /\ DOMAIN cache = {"1:a.eth"}

\* C22: when ParseUrl returns without an error, and whenever it is at or
\* past the probe, ChainId is a chain of ChainConfigs, also when it is the
\* target chain of a resolution or of a cache entry; a target chain that
\* is not configured makes ParseUrl return a Web3Error 400 without a dial
\* or a call of the probe.
C22_ChainIdIsConfigured ==
    \A t \in DOMAIN req :
        LET r == req[t]
        IN  /\ (Parsed(r) \/ r.pc \in {"probe", "fetch", "process"} \/ Count(r, "resolveMode") > 0) =>
                    /\ r.web3Url.ChainId \in DOMAIN ChainConfigs
                    /\ r.web3Url.ChainId \in {1, 100}
            /\ (NameHost(r) /\ r.looked.err = NoError /\ r.looked.chain \notin {0, 1, 100}) =>
                    /\ r.pc = "done"
                    /\ ~r.panicked
                    /\ r.web3Url.ChainId = r.looked.chain
                    /\ r.err = Web3Error(StatusBadRequest, "unsupported chain id: " \o Itoa(r.looked.chain))
                    /\ r.err.code = 400
                    /\ r.steps = <<[fn |-> "ParseUrl", err |-> r.err]>>
                    /\ Count(r, "resolveMode") = 0
                    /\ Count(r, "call") = 0
                    /\ r.hit => Count(r, "dial") = 0
                    /\ ~r.hit => Count(r, "dial") = 1

\* the cache gave a.eth the target chain 5, which is not configured, and
\* ParseUrl returned 400 without a probe
C22_Witness ==
    \E t \in DOMAIN req :
        /\ req[t].url = "web3://a.eth/"
        /\ req[t].hit
        /\ req[t].looked = Resolved(Addr(2), 5)
        /\ req[t].pc = "done"
        /\ req[t].err.code = 400
        /\ req[t].calls = <<Op("cache.get", 0, ZeroAddress, "1:a.eth")>>

\* C23, as claimed: every entry of the cache has a target chain that is 0
\* or a chain of ChainConfigs.
C23_CachedChainsAreConfigured ==
    \A k \in DOMAIN cache : cache[k].chain \in DOMAIN ChainConfigs \cup {0}

\* the state part of C23 as amended: the target chains of the entries
C23_CachedChains ==
    \A k \in DOMAIN cache : cache[k].chain \in {Name2Chain[n] : n \in DOMAIN Name2Chain} \cup {0}

\* the step part of C23 as amended: a resolution that succeeded with a
\* target chain that is not configured is in the cache when ParseUrl returns
\* its error
C23_StoredBeforeCheck ==
    \A t \in DOMAIN req :
        LET r == req[t]
            n == req'[t]
        IN  (/\ r.pc \in ResolvingPcs
             /\ n.pc \notin ResolvingPcs
             /\ n.looked.err = NoError
             /\ n.looked.chain \notin DOMAIN ChainConfigs \cup {0}) =>
                /\ n.pc = "done"
                /\ n.err.code = 400
                /\ n.cacheKey \in DOMAIN cache'
                /\ cache'[n.cacheKey] = [addr |-> n.looked.addr, chain |-> n.looked.chain, ttl |-> TtlTicks]

\* C23 as amended: every entry of the cache has a target chain that is 0
\* or a chain of a short name of Name2Chain, configured or not; a
\* resolution that succeeded is stored before the check of the chain, also
\* when ParseUrl then fails that check.
C23_CacheHoldsEveryResolution == []C23_CachedChains /\ [][C23_StoredBeforeCheck]_vars

\* the cache holds a.eth with the target chain 5, which is not
\* configured, and the request that resolved it ended with 400
C23_Witness ==
    \E t \in DOMAIN req :
        /\ req[t].url = "web3://a.eth/"
        /\ ~req[t].hit
        /\ req[t].pc = "done"
        /\ req[t].err.code = 400
        /\ LastOp(req[t]) = "cache.add"
        /\ "1:a.eth" \in DOMAIN cache
        /\ cache["1:a.eth"].chain = 5
        /\ cache["1:a.eth"].addr = Addr(2)

\* C24: when ParseUrl returns without an error, whatever resolve mode the
\* probe selected, ContractCallMode is calldata or method and
\* ContractReturnProcessing is not empty.
C24_ParsedPlanIsComplete ==
    \A t \in DOMAIN req :
        Parsed(req[t]) =>
            /\ req[t].web3Url.ResolveMode \in {ResolveModeAuto, ResolveModeManual, ResolveModeResourceRequests}
            /\ req[t].web3Url.ContractCallMode \in {"calldata", "method"}
            /\ req[t].web3Url.ContractReturnProcessing # ""

\* C25: when ProcessContractReturn returns without an error, for every
\* ContractReturnProcessing that is not empty, erc5219 included, HttpCode
\* is 200.
C25_SuccessIsStatusOk ==
    \A t \in DOMAIN req :
        LET r == req[t]
        IN  (/\ r.steps # <<>>
             /\ r.steps[Len(r.steps)] = [fn |-> "ProcessContractReturn", err |-> NoError]
             /\ r.web3Url.ContractReturnProcessing # "") =>
                r.fetchedUrl.HttpCode = 200

====
